---------------------------- MODULE Spec2Model ----------------------------
(***************************************************************************)
(* A model of the k8s resource manager: the axum handlers                  *)
(* (src/src/handlers), the two ResourceManager implementations             *)
(* (src/src/resources), the validation rules (src/src/utils/validation.rs) *)
(* and the error classifier (src/src/error.rs), running against an         *)
(* orchestrator store of clusters, notebooks and storage claims.           *)
(*                                                                         *)
(* Representation.  A Rust String is a sequence of one-character strings   *)
(* (<<"1","G","i">> is "1Gi"), so that the validation rules inspect the    *)
(* characters as the code does.  Option<T> is a sequence of length at most *)
(* one: None is <<>> and Some(x) is <<x>>.  A HashMap<String,String> is a  *)
(* function from its keys to its values.                                   *)
(***************************************************************************)
EXTENDS Integers, Sequences, FiniteSets, TLC

VARIABLES
    clusters,   \* store: Cluster objects by <<namespace, name>> (Api<Cluster>)
    notebooks,  \* store: Notebook objects by <<namespace, name>> (Api<Notebook>)
    pvcs,       \* store: PersistentVolumeClaim objects by <<namespace, name>>
    req,        \* per in-flight request: the decoded handler input
    pc,         \* per in-flight request: the handler's position
    client,     \* per in-flight request: Client::try_default() has succeeded
    local,      \* per in-flight request: the object read by update
    calls,      \* per in-flight request: the orchestrator calls issued, in order
    result,     \* per in-flight request: the handler's Result
    started,    \* number of requests received so far
    failures    \* number of calls the orchestrator or the transport has failed

vars == <<clusters, notebooks, pvcs, req, pc, client, local, calls, result,
          started, failures>>

----------------------------------------------------------------------------
(* Option<T> and small helpers *)

None == <<>>

Some(x) == <<x>>

IsSome(o) == o # <<>>

Unwrap(o) == o[1]

UnwrapOr(o, d) == IF o # <<>> THEN o[1] ELSE d

Range(f) == {f[i] : i \in DOMAIN f}

\* HashMap::insert
MapInsert(m, k, v) == [x \in (DOMAIN m) \cup {k} |-> IF x = k THEN v ELSE m[x]]

EmptyMap == <<>>

----------------------------------------------------------------------------
(* Characters *)

Lower == {"a","b","c","d","e","f","g","h","i","j","k","l","m",
          "n","o","p","q","r","s","t","u","v","w","x","y","z"}

Upper == {"A","B","C","D","E","F","G","H","I","J","K","L","M",
          "N","O","P","Q","R","S","T","U","V","W","X","Y","Z"}

Digit == {"0","1","2","3","4","5","6","7","8","9"}

\* str::ends_with / str::starts_with
EndsWith(s, suf) ==
    /\ Len(s) >= Len(suf)
    /\ SubSeq(s, Len(s) - Len(suf) + 1, Len(s)) = suf

StartsWith(s, pre) ==
    /\ Len(s) >= Len(pre)
    /\ SubSeq(s, 1, Len(pre)) = pre

\* str::strip_suffix on a string that ends with suf
StripSuffix(s, suf) == SubSeq(s, 1, Len(s) - Len(suf))

AllDigits(s) == \A i \in 1..Len(s) : s[i] \in Digit

\* char::to_ascii_lowercase, for the three words f64::from_str reads case-blind
ToLower(c) ==
    CASE c = "I" -> "i" [] c = "N" -> "n" [] c = "F" -> "f" [] c = "T" -> "t"
      [] c = "Y" -> "y" [] c = "A" -> "a" [] c = "E" -> "e" [] OTHER -> c

LowerStr(s) == [i \in 1..Len(s) |-> ToLower(s[i])]

----------------------------------------------------------------------------
(* Number parsing, as str::parse does it (Rust core library) *)

\* The decimal digits of u32::MAX = 4294967295
U32MaxDigits == <<"4","2","9","4","9","6","7","2","9","5">>

DigitVal(c) ==
    CASE c = "0" -> 0 [] c = "1" -> 1 [] c = "2" -> 2 [] c = "3" -> 3
      [] c = "4" -> 4 [] c = "5" -> 5 [] c = "6" -> 6 [] c = "7" -> 7
      [] c = "8" -> 8 [] OTHER -> 9

RECURSIVE StripZeros(_)
StripZeros(s) == IF s # <<>> /\ Head(s) = "0" THEN StripZeros(Tail(s)) ELSE s

\* a <= b for two digit strings of the same length
RECURSIVE DigitsLeq(_, _)
DigitsLeq(a, b) ==
    IF a = <<>> THEN TRUE
    ELSE IF DigitVal(Head(a)) < DigitVal(Head(b)) THEN TRUE
    ELSE IF DigitVal(Head(a)) > DigitVal(Head(b)) THEN FALSE
    ELSE DigitsLeq(Tail(a), Tail(b))

\* s.parse::<u32>().is_ok(): an optional '+', then one or more digits, whose
\* value does not exceed u32::MAX
ParseU32Ok(s) ==
    LET body == IF s # <<>> /\ Head(s) = "+" THEN Tail(s) ELSE s
        sig  == StripZeros(body)
    IN  /\ body # <<>>
        /\ AllDigits(body)
        /\ \/ Len(sig) < Len(U32MaxDigits)
           \/ Len(sig) = Len(U32MaxDigits) /\ DigitsLeq(sig, U32MaxDigits)

\* Number ::= ( Digit+ | Digit+ '.' Digit* | Digit* '.' Digit+ ) Exp?
\* Exp    ::= 'e' Sign? Digit+
IsMantissa(m) ==
    \/ m # <<>> /\ AllDigits(m)
    \/ \E i \in 1..Len(m) :
         /\ m[i] = "."
         /\ AllDigits(SubSeq(m, 1, i - 1))
         /\ AllDigits(SubSeq(m, i + 1, Len(m)))
         /\ Len(m) > 1

IsExponent(e) ==
    LET d == IF e # <<>> /\ Head(e) \in {"+", "-"} THEN Tail(e) ELSE e
    IN  d # <<>> /\ AllDigits(d)

IsNumber(n) ==
    \/ IsMantissa(n)
    \/ \E i \in 1..Len(n) :
         /\ n[i] \in {"e", "E"}
         /\ IsMantissa(SubSeq(n, 1, i - 1))
         /\ IsExponent(SubSeq(n, i + 1, Len(n)))

\* s.parse::<f64>().is_ok():  Float ::= Sign? ( 'inf' | 'infinity' | 'nan' | Number )
ParseF64Ok(s) ==
    LET body == IF s # <<>> /\ Head(s) \in {"+", "-"} THEN Tail(s) ELSE s
    IN  \/ LowerStr(body) \in { <<"i","n","f">>,
                                <<"i","n","f","i","n","i","t","y">>,
                                <<"n","a","n">> }
        \/ IsNumber(body)

----------------------------------------------------------------------------
(* src/src/utils/validation.rs.  A rule is TRUE when it returns Ok(()) and   *)
(* FALSE when it returns Err(AppError::Validation(..)).                      *)

MaxNameLen == 253

\* the rule of names without the test of the last character
validate_resource_name_open_ended(name) ==
    /\ name # <<>>
    /\ Len(name) <= MaxNameLen
    /\ \A i \in 1..Len(name) : name[i] \in Lower \cup Digit \cup {"-"}
    /\ ~StartsWith(name, <<"-">>)

validate_resource_name(name) ==
    /\ name # <<>>
    /\ Len(name) <= MaxNameLen
    /\ \A i \in 1..Len(name) : name[i] \in Lower \cup Digit \cup {"-"}
    /\ ~StartsWith(name, <<"-">>)
    /\ ~EndsWith(name, <<"-">>)

validate_namespace(namespace) ==
    /\ namespace # <<>>
    /\ validate_resource_name(namespace)
    /\ namespace # <<".">>
    /\ namespace # <<".", ".">>

validate_cpu_resource(cpu) ==
    /\ cpu # <<>>
    /\ IF EndsWith(cpu, <<"m">>)
       THEN ParseU32Ok(SubSeq(cpu, 1, Len(cpu) - 1))
       ELSE ParseF64Ok(cpu)

valid_suffixes ==
    << <<"K","i">>, <<"M","i">>, <<"G","i">>, <<"T","i">>, <<"P","i">>, <<"E","i">>,
       <<"K">>, <<"M">>, <<"G">>, <<"T">>, <<"P">>, <<"E">> >>

validate_memory_resource(memory) ==
    /\ memory # <<>>
    /\ \E i \in DOMAIN valid_suffixes : EndsWith(memory, valid_suffixes[i])
    /\ LET first == CHOOSE i \in DOMAIN valid_suffixes :
                       /\ EndsWith(memory, valid_suffixes[i])
                       /\ \A j \in 1..(i - 1) : ~EndsWith(memory, valid_suffixes[j])
       IN  ParseF64Ok(StripSuffix(memory, valid_suffixes[first]))

validate_storage_size(size) == validate_memory_resource(size)

validate_image_name(image) ==
    /\ image # <<>>
    /\ ~( /\ "/" \notin Range(image)
          /\ ":" \notin Range(image)
          /\ Len(image) < 2 )

MaxDbNameLen == 63

validate_database_name(db_name) ==
    /\ db_name # <<>>
    /\ Len(db_name) <= MaxDbNameLen
    /\ Head(db_name) \in Lower \cup Upper \cup {"_"}
    /\ \A i \in 1..Len(db_name) : db_name[i] \in Lower \cup Upper \cup Digit \cup {"_"}

MinInstances == 1

MaxInstances == 10

\* the rule of the instance count with the upper limit excluded
validate_instance_count_below_max(instances) ==
    /\ instances >= MinInstances
    /\ instances < MaxInstances

validate_instance_count(instances) ==
    /\ instances >= MinInstances
    /\ instances <= MaxInstances


----------------------------------------------------------------------------
(* src/src/resources/cnpg.rs: the cluster spec built by create, and the     *)
(* overlay applied by update                                                 *)

\* the ClusterSpec literal with a monitoring section defaulted when the flag is absent
BuildClusterSpecDefaultMonitoring(request) ==
    [ instances  |-> request.instances,
      postgresql |-> [parameters |-> UnwrapOr(request.postgresql_parameters, EmptyMap)],
      bootstrap  |-> Some([initdb |-> Some([database |-> request.database_name,
                                            owner    |-> request.database_owner,
                                            secret   |-> [name |-> request.secret_name]])]),
      storage    |-> Some([size          |-> request.storage_size,
                           storage_class |-> request.storage_class]),
      monitoring |-> Some([enable_pod_monitor      |-> UnwrapOr(request.monitoring_enabled, FALSE),
                           disable_default_queries |-> FALSE]) ]

\* the ClusterSpec literal with database and owner exchanged
BuildClusterSpecSwapped(request) ==
    [ instances  |-> request.instances,
      postgresql |-> [parameters |-> UnwrapOr(request.postgresql_parameters, EmptyMap)],
      bootstrap  |-> Some([initdb |-> Some([database |-> request.database_owner,
                                            owner    |-> request.database_name,
                                            secret   |-> [name |-> request.secret_name]])]),
      storage    |-> Some([size          |-> request.storage_size,
                           storage_class |-> request.storage_class]),
      monitoring |-> IF IsSome(request.monitoring_enabled)
                     THEN Some([enable_pod_monitor      |-> Unwrap(request.monitoring_enabled),
                                disable_default_queries |-> FALSE])
                     ELSE None ]

\* CnpgManager::create, the ClusterSpec literal
BuildClusterSpec(request) ==
    [ instances  |-> request.instances,
      postgresql |-> [parameters |-> UnwrapOr(request.postgresql_parameters, EmptyMap)],
      bootstrap  |-> Some([initdb |-> Some([database |-> request.database_name,
                                            owner    |-> request.database_owner,
                                            secret   |-> [name |-> request.secret_name]])]),
      storage    |-> Some([size          |-> request.storage_size,
                           storage_class |-> request.storage_class]),
      monitoring |-> IF IsSome(request.monitoring_enabled)
                     THEN Some([enable_pod_monitor      |-> Unwrap(request.monitoring_enabled),
                                disable_default_queries |-> FALSE])
                     ELSE None ]

\* CnpgManager::create, the Cluster literal
BuildCluster(request, namespace) ==
    [ metadata |-> [name |-> Some(request.name), namespace |-> Some(namespace),
                    creation_timestamp |-> None],
      spec     |-> BuildClusterSpec(request) ]

\* the overlays of update with a monitoring section that follows the flag as in create
ApplyClusterUpdateDefaulted(cluster, request) ==
    LET s1 == IF IsSome(request.instances)
              THEN [cluster.spec EXCEPT !.instances = Unwrap(request.instances)]
              ELSE cluster.spec
        s2 == IF IsSome(request.postgresql_parameters)
              THEN [s1 EXCEPT !.postgresql.parameters = Unwrap(request.postgresql_parameters)]
              ELSE s1
        s3 == IF IsSome(request.monitoring_enabled)
              THEN [s2 EXCEPT !.monitoring =
                        Some([enable_pod_monitor      |-> Unwrap(request.monitoring_enabled),
                              disable_default_queries |-> FALSE])]
              ELSE [s2 EXCEPT !.monitoring = None]
    IN  [cluster EXCEPT !.spec = s3]

\* the overlays of update with a monitoring section whose disableDefaultQueries
\* is carried over from the section the cluster had
ApplyClusterUpdateKeepingQueries(cluster, request) ==
    LET s1 == IF IsSome(request.instances)
              THEN [cluster.spec EXCEPT !.instances = Unwrap(request.instances)]
              ELSE cluster.spec
        s2 == IF IsSome(request.postgresql_parameters)
              THEN [s1 EXCEPT !.postgresql.parameters = Unwrap(request.postgresql_parameters)]
              ELSE s1
        s3 == IF IsSome(request.monitoring_enabled)
              THEN [s2 EXCEPT !.monitoring =
                        Some([enable_pod_monitor      |-> Unwrap(request.monitoring_enabled),
                              disable_default_queries |->
                                  IF IsSome(s2.monitoring)
                                  THEN Unwrap(s2.monitoring).disable_default_queries
                                  ELSE FALSE])]
              ELSE s2
    IN  [cluster EXCEPT !.spec = s3]

\* CnpgManager::update, the three `if let Some(..)` overlays on the cluster read
ApplyClusterUpdate(cluster, request) ==
    LET s1 == IF IsSome(request.instances)
              THEN [cluster.spec EXCEPT !.instances = Unwrap(request.instances)]
              ELSE cluster.spec
        s2 == IF IsSome(request.postgresql_parameters)
              THEN [s1 EXCEPT !.postgresql.parameters = Unwrap(request.postgresql_parameters)]
              ELSE s1
        s3 == IF IsSome(request.monitoring_enabled)
              THEN [s2 EXCEPT !.monitoring =
                        Some([enable_pod_monitor      |-> Unwrap(request.monitoring_enabled),
                              disable_default_queries |-> FALSE])]
              ELSE s2
    IN  [cluster EXCEPT !.spec = s3]

----------------------------------------------------------------------------
(* src/src/resources/kubeflow.rs: the notebook spec builders                 *)

\* format!("{}-workspace", name) and format!("{}-workspace-pvc", name)
WorkspaceVolumeName(name) == name \o <<"-","w","o","r","k","s","p","a","c","e">>

WorkspacePvcName(name) ==
    name \o <<"-","w","o","r","k","s","p","a","c","e","-","p","v","c">>

\* the PersistentVolumeClaim create_workspace_pvc builds
WorkspacePvc(namespace, notebook_name, size) ==
    [ metadata |-> [ name |-> Some(WorkspacePvcName(notebook_name)),
                     namespace |-> Some(namespace), creation_timestamp |-> None ],
      spec |-> [access_modes |-> <<"ReadWriteOnce">>, storage |-> size] ]

\* the home directory in place of the work directory
HomeMountPath == <<"/","h","o","m","e","/","j","o","v","y","a","n">>

\* `.unwrap_or("/home/jovyan/work")`
DefaultMountPath ==
    <<"/","h","o","m","e","/","j","o","v","y","a","n","/","w","o","r","k">>

NotebookPortNumber == 8888

\* `if let Some(v) = field { map.insert(key, v) }`
InsertIfSome(m, k, o) == IF IsSome(o) THEN MapInsert(m, k, Unwrap(o)) ELSE m

\* a map kept as it is, empty or not
SomeEvenIfEmpty(m) == Some(m)

\* `if map.is_empty() { None } else { Some(map) }`
NoneIfEmpty(m) == IF DOMAIN m = {} THEN None ELSE Some(m)

\* env_map.iter().map(|(k, v)| NotebookEnvVar { name, value }).collect(): the
\* order of a HashMap's iteration is unspecified, so the Vec is kept as the set
\* of its entries
EnvVars(env_map) == {[name |-> k, value |-> env_map[k]] : k \in DOMAIN env_map}

build_notebook_spec(request) ==
    LET requests == InsertIfSome(InsertIfSome(EmptyMap, "cpu", request.cpu_request),
                                 "memory", request.memory_request)
        limits   == InsertIfSome(InsertIfSome(InsertIfSome(EmptyMap,
                                 "cpu", request.cpu_limit),
                                 "memory", request.memory_limit),
                                 "nvidia.com/gpu", request.gpu_limit)
        notebook_resources ==
            IF DOMAIN requests # {} \/ DOMAIN limits # {}
            THEN Some([requests |-> NoneIfEmpty(requests), limits |-> NoneIfEmpty(limits)])
            ELSE None
        env_vars == IF IsSome(request.environment_variables)
                    THEN Some(EnvVars(Unwrap(request.environment_variables)))
                    ELSE None
        mount_path == UnwrapOr(request.workspace_volume_mount, DefaultMountPath)
        volume_mounts ==
            IF IsSome(request.workspace_volume_size)
            THEN Some(<< [name       |-> WorkspaceVolumeName(request.name),
                          mount_path |-> mount_path] >>)
            ELSE None
        volumes ==
            IF IsSome(request.workspace_volume_size)
            THEN Some(<< [name |-> WorkspaceVolumeName(request.name),
                          persistent_volume_claim |->
                              Some([claim_name |-> WorkspacePvcName(request.name)]),
                          empty_dir |-> None] >>)
            ELSE None
        ports == << [container_port |-> NotebookPortNumber,
                     name |-> "notebook-port", protocol |-> "TCP"] >>
        container == [ name          |-> "notebook",
                       image         |-> request.image,
                       resources     |-> notebook_resources,
                       env           |-> env_vars,
                       volume_mounts |-> volume_mounts,
                       ports         |-> Some(ports) ]
    IN  [template |-> [spec |-> [ containers           |-> <<container>>,
                                  volumes              |-> volumes,
                                  service_account_name |-> request.service_account ]]]

\* the overlay with the resource maps rebuilt from the update alone
UpdateContainerRebuilt(container, request) ==
    LET c1 == IF IsSome(request.image)
              THEN [container EXCEPT !.image = Unwrap(request.image)]
              ELSE container
        requests == InsertIfSome(InsertIfSome(EmptyMap, "cpu", request.cpu_request),
                                 "memory", request.memory_request)
        limits   == InsertIfSome(InsertIfSome(InsertIfSome(EmptyMap,
                                 "cpu", request.cpu_limit),
                                 "memory", request.memory_limit),
                                 "nvidia.com/gpu", request.gpu_limit)
        c2 == IF \/ IsSome(request.cpu_request)
                 \/ IsSome(request.cpu_limit)
                 \/ IsSome(request.memory_request)
                 \/ IsSome(request.memory_limit)
                 \/ IsSome(request.gpu_limit)
              THEN [c1 EXCEPT !.resources =
                        Some([requests |-> NoneIfEmpty(requests),
                              limits   |-> NoneIfEmpty(limits)])]
              ELSE c1
    IN  IF IsSome(request.environment_variables)
        THEN [c2 EXCEPT !.env = Some(EnvVars(Unwrap(request.environment_variables)))]
        ELSE c2

\* the overlay with the update's variables merged into the existing environment
UpdateContainerMergingEnv(container, request) ==
    LET c1 == IF IsSome(request.image)
              THEN [container EXCEPT !.image = Unwrap(request.image)]
              ELSE container
        old_requests == IF IsSome(c1.resources)
                        THEN UnwrapOr(Unwrap(c1.resources).requests, EmptyMap)
                        ELSE EmptyMap
        old_limits   == IF IsSome(c1.resources)
                        THEN UnwrapOr(Unwrap(c1.resources).limits, EmptyMap)
                        ELSE EmptyMap
        requests == InsertIfSome(InsertIfSome(old_requests, "cpu", request.cpu_request),
                                 "memory", request.memory_request)
        limits   == InsertIfSome(InsertIfSome(InsertIfSome(old_limits,
                                 "cpu", request.cpu_limit),
                                 "memory", request.memory_limit),
                                 "nvidia.com/gpu", request.gpu_limit)
        c2 == IF \/ IsSome(request.cpu_request)
                 \/ IsSome(request.cpu_limit)
                 \/ IsSome(request.memory_request)
                 \/ IsSome(request.memory_limit)
                 \/ IsSome(request.gpu_limit)
              THEN [c1 EXCEPT !.resources =
                        Some([requests |-> NoneIfEmpty(requests),
                              limits   |-> NoneIfEmpty(limits)])]
              ELSE c1
        env_vars == EnvVars(Unwrap(request.environment_variables))
    IN  IF IsSome(request.environment_variables)
        THEN [c2 EXCEPT !.env =
                 Some(env_vars \cup {v \in UnwrapOr(c2.env, {}) :
                                        \A w \in env_vars : w.name # v.name})]
        ELSE c2

\* the overlay build_update_spec applies to containers[0]
UpdateContainer(container, request) ==
    LET c1 == IF IsSome(request.image)
              THEN [container EXCEPT !.image = Unwrap(request.image)]
              ELSE container
        old_requests == IF IsSome(c1.resources)
                        THEN UnwrapOr(Unwrap(c1.resources).requests, EmptyMap)
                        ELSE EmptyMap
        old_limits   == IF IsSome(c1.resources)
                        THEN UnwrapOr(Unwrap(c1.resources).limits, EmptyMap)
                        ELSE EmptyMap
        requests == InsertIfSome(InsertIfSome(old_requests, "cpu", request.cpu_request),
                                 "memory", request.memory_request)
        limits   == InsertIfSome(InsertIfSome(InsertIfSome(old_limits,
                                 "cpu", request.cpu_limit),
                                 "memory", request.memory_limit),
                                 "nvidia.com/gpu", request.gpu_limit)
        c2 == IF \/ IsSome(request.cpu_request)
                 \/ IsSome(request.cpu_limit)
                 \/ IsSome(request.memory_request)
                 \/ IsSome(request.memory_limit)
                 \/ IsSome(request.gpu_limit)
              THEN [c1 EXCEPT !.resources =
                        Some([requests |-> NoneIfEmpty(requests),
                              limits   |-> NoneIfEmpty(limits)])]
              ELSE c1
    IN  IF IsSome(request.environment_variables)
        THEN [c2 EXCEPT !.env = Some(EnvVars(Unwrap(request.environment_variables)))]
        ELSE c2

\* an update spec that keeps the primary container alone
build_update_spec_primary_only(existing_spec, request) ==
    IF existing_spec.template.spec.containers # <<>>
    THEN [existing_spec EXCEPT !.template.spec.containers =
              <<UpdateContainer(existing_spec.template.spec.containers[1], request)>>]
    ELSE existing_spec

\* KubeflowManager::build_update_spec: the clone, with containers[0] overlaid
build_update_spec(existing_spec, request) ==
    IF existing_spec.template.spec.containers # <<>>
    THEN [existing_spec EXCEPT !.template.spec.containers[1] =
              UpdateContainer(existing_spec.template.spec.containers[1], request)]
    ELSE existing_spec

\* Notebook::new(&request.name, notebook_spec): the namespace is the Api's
NewNotebook(name, spec) ==
    [ metadata |-> [name |-> Some(name), namespace |-> None,
                    creation_timestamp |-> None],
      spec     |-> spec ]

----------------------------------------------------------------------------
(* src/src/error.rs: AppError and its classification into a response         *)

\* a message: the format string and the values formatted into it; `detail` is
\* the format string of an orchestrator message wrapped by the classifier
Msg(fmt, args) == [fmt |-> fmt, detail |-> "", args |-> args]

WrapMsg(fmt, inner) == [fmt |-> fmt, detail |-> inner.fmt, args |-> inner.args]

\* kube::Error: Api(ErrorResponse { code, message, .. }), Auth(..), and the
\* transport-level variants (hyper, service, ...), which carry no status code
KubeApi(code, message) == [type |-> "Api", code |-> code, message |-> message]

KubeAuth == [type |-> "Auth", code |-> 0, message |-> Msg("auth error", <<>>)]

KubeTransport == [type |-> "Transport", code |-> 0, message |-> Msg("transport error", <<>>)]

\* the AppError variants the handlers and managers construct
AppKube(err) == [variant |-> "Kube", err |-> err]

AppNotFound(msg) == [variant |-> "NotFound", msg |-> msg]

AppValidation(msg) == [variant |-> "Validation", msg |-> msg]

AppConfig(msg) == [variant |-> "Config", msg |-> msg]

AppInternal(msg) == [variant |-> "Internal", msg |-> msg]

\* Result<T>: Ok(body)
Ok(body) == [ok |-> TRUE, body |-> body]

StatusNotFound == 404

StatusBadRequest == 400

StatusUnauthorized == 401

StatusForbidden == 403

StatusConflict == 409

StatusInternal == 500

StatusUnavailable == 503

StatusTimeout == 408

\* the inner match of into_response on kube::Error
KubeStatusAndMessage(err) ==
    IF err.type = "Api"
    THEN CASE err.code = 404 -> [status  |-> StatusNotFound,
                                 message |-> WrapMsg("Resource not found: {}", err.message)]
           [] err.code = 400 -> [status  |-> StatusBadRequest,
                                 message |-> WrapMsg("Invalid request: {}", err.message)]
           [] err.code = 401 -> [status  |-> StatusUnauthorized,
                                 message |-> WrapMsg("Unauthorized: {}", err.message)]
           [] err.code = 403 -> [status  |-> StatusForbidden,
                                 message |-> WrapMsg("Forbidden: {}", err.message)]
           [] err.code = 409 -> [status  |-> StatusConflict,
                                 message |-> WrapMsg("Conflict: {}", err.message)]
           [] OTHER          -> [status  |-> StatusInternal,
                                 message |-> WrapMsg("Kubernetes error: {}", err.message)]
    ELSE IF err.type = "Auth"
    THEN [status |-> StatusUnauthorized,
          message |-> WrapMsg("Authentication error: {}", err.message)]
    ELSE [status |-> StatusInternal,
          message |-> WrapMsg("Kubernetes error: {}", err.message)]

\* AppError::into_response: the body {"error": {"type", "message", "status"}}
into_response(e) ==
    CASE e.variant = "NotFound"   ->
           [status |-> StatusNotFound, message |-> e.msg, type |-> "NotFound"]
      [] e.variant = "BadRequest" ->
           [status |-> StatusBadRequest, message |-> e.msg, type |-> "BadRequest"]
      [] e.variant = "Validation" ->
           [status |-> StatusBadRequest, message |-> e.msg, type |-> "Validation"]
      [] e.variant = "Config"     ->
           [status |-> StatusInternal, message |-> e.msg, type |-> "Configuration"]
      [] e.variant = "Network"    ->
           [status |-> StatusUnavailable, message |-> e.msg, type |-> "Network"]
      [] e.variant = "Timeout"    ->
           [status |-> StatusTimeout, message |-> e.msg, type |-> "Timeout"]
      [] e.variant = "Kube"       ->
           [status  |-> KubeStatusAndMessage(e.err).status,
            message |-> KubeStatusAndMessage(e.err).message,
            type    |-> "Kubernetes"]
      [] e.variant = "Serde"      ->
           [status |-> StatusBadRequest,
            message |-> WrapMsg("Serialization error: {}", e.msg), type |-> "Serialization"]
      [] e.variant = "Json"       ->
           [status |-> StatusBadRequest,
            message |-> WrapMsg("JSON error: {}", e.msg), type |-> "JSON"]
      [] OTHER                    ->
           [status |-> StatusInternal, message |-> e.msg, type |-> "Internal"]

\* Result<T>: Err(error), with the response axum makes of it when the handler
\* returns it (impl IntoResponse for AppError)
Err(error) == [ok |-> FALSE, error |-> error, response |-> into_response(error)]

----------------------------------------------------------------------------
(* The orchestrator, as the kube client calls see it.  A store maps          *)
(* <<namespace, name>> to the object held; each call answers from the store, *)
(* unless the orchestrator or the transport fails the call (a fault).        *)

NoFault == [type |-> "None", code |-> 0]

ApiFault(code) == [type |-> "Api", code |-> code]

\* the failures a call can meet whatever the store holds: a status the
\* orchestrator answers with, an authentication error, a transport error
Faults == { ApiFault(400), ApiFault(401), ApiFault(403), ApiFault(409),
            ApiFault(422), ApiFault(500),
            [type |-> "Auth", code |-> 0], [type |-> "Transport", code |-> 0] }

FaultError(fault, name) ==
    IF fault.type = "Api" THEN KubeApi(fault.code, Msg("status {}", <<name>>))
    ELSE IF fault.type = "Auth" THEN KubeAuth
    ELSE KubeTransport

CallOk(val, store) == [ok |-> TRUE, val |-> val, store |-> store]

CallErr(err, store) == [ok |-> FALSE, err |-> err, store |-> store]

Present(store, ns, name) == <<ns, name>> \in DOMAIN store

Remove(store, key) == [k \in (DOMAIN store) \ {key} |-> store[k]]

\* the object as the orchestrator stores it: in the namespace of the Api, with
\* the creation timestamp the orchestrator gives it
Stored(obj, ns) ==
    [obj EXCEPT !.metadata.namespace = Some(ns),
                !.metadata.creation_timestamp = Some("t0")]

\* Api::create
ApiCreate(store, ns, name, obj, fault) ==
    IF fault # NoFault THEN CallErr(FaultError(fault, name), store)
    ELSE IF Present(store, ns, name)
    THEN CallErr(KubeApi(409, Msg("{} already exists", <<name>>)), store)
    ELSE CallOk(Stored(obj, ns), MapInsert(store, <<ns, name>>, Stored(obj, ns)))

\* Api::get
ApiGet(store, ns, name, fault) ==
    IF fault # NoFault THEN CallErr(FaultError(fault, name), store)
    ELSE IF ~Present(store, ns, name)
    THEN CallErr(KubeApi(404, Msg("{} not found", <<name>>)), store)
    ELSE CallOk(store[<<ns, name>>], store)

\* Api::list: the ObjectList of the namespace; its items are kept as the set
\* of the objects
ApiList(store, ns, fault) ==
    IF fault # NoFault THEN CallErr(FaultError(fault, ns), store)
    ELSE CallOk([items |-> {store[k] : k \in {x \in DOMAIN store : x[1] = ns}}], store)

\* Api::replace: the object sent takes the place of the one stored
ApiReplace(store, ns, name, obj, fault) ==
    IF fault # NoFault THEN CallErr(FaultError(fault, name), store)
    ELSE IF ~Present(store, ns, name)
    THEN CallErr(KubeApi(404, Msg("{} not found", <<name>>)), store)
    ELSE CallOk(Stored(obj, ns), [store EXCEPT ![<<ns, name>>] = Stored(obj, ns)])

\* a JSON merge patch {"spec": spec} applied to a stored notebook: the
\* containers array is replaced; volumes and serviceAccountName, which
\* skip_serializing_if leaves out of the patch when None, are replaced only
\* when the patch holds them
MergeNotebookSpec(stored, patch) ==
    [template |-> [spec |->
        [ containers |-> patch.template.spec.containers,
          volumes    |-> IF IsSome(patch.template.spec.volumes)
                         THEN patch.template.spec.volumes
                         ELSE stored.template.spec.volumes,
          service_account_name |->
                         IF IsSome(patch.template.spec.service_account_name)
                         THEN patch.template.spec.service_account_name
                         ELSE stored.template.spec.service_account_name ]]]

\* Api::patch with Patch::Merge(json!({"spec": spec}))
ApiPatchMerge(store, ns, name, spec, fault) ==
    IF fault # NoFault THEN CallErr(FaultError(fault, name), store)
    ELSE IF ~Present(store, ns, name)
    THEN CallErr(KubeApi(404, Msg("{} not found", <<name>>)), store)
    ELSE LET patched == [store[<<ns, name>>] EXCEPT
                            !.spec = MergeNotebookSpec(store[<<ns, name>>].spec, spec)]
         IN  CallOk(patched, [store EXCEPT ![<<ns, name>>] = patched])

\* Api::delete
ApiDelete(store, ns, name, fault) ==
    IF fault # NoFault THEN CallErr(FaultError(fault, name), store)
    ELSE IF ~Present(store, ns, name)
    THEN CallErr(KubeApi(404, Msg("{} not found", <<name>>)), store)
    ELSE CallOk(store[<<ns, name>>], Remove(store, <<ns, name>>))

\* one entry of a request's log of orchestrator calls
Call(api, verb, ns, name, out) ==
    [ api |-> api, verb |-> verb, ns |-> ns, name |-> name,
      ok  |-> out.ok, code |-> IF out.ok THEN 200 ELSE out.err.code ]

----------------------------------------------------------------------------
(* src/src/handlers: the validation each handler runs before it asks for a   *)
(* client.  A check is <<rule, passed>>; the handler returns the Validation  *)
(* error of the first check that fails.                                      *)

Check(rule, passed) == [rule |-> rule, passed |-> passed]

FirstFailed(checks) ==
    IF \A i \in DOMAIN checks : checks[i].passed THEN None
    ELSE LET i == CHOOSE i \in DOMAIN checks :
                      /\ ~checks[i].passed
                      /\ \A j \in 1..(i - 1) : checks[j].passed
         IN  Some(checks[i].rule)

create_cluster_checks(p) ==
    << Check("validate_resource_name", validate_resource_name(p.name)),
       Check("validate_database_name", validate_database_name(p.database_name)),
       Check("validate_database_name", validate_database_name(p.database_owner)),
       Check("validate_instance_count", validate_instance_count(p.instances)),
       Check("validate_storage_size", validate_storage_size(p.storage_size)),
       Check("validate_namespace",
             IF IsSome(p.namespace) THEN validate_namespace(Unwrap(p.namespace)) ELSE TRUE) >>

path_checks(namespace, name) ==
    << Check("validate_namespace", validate_namespace(namespace)),
       Check("validate_resource_name", validate_resource_name(name)) >>

list_checks(namespace) ==
    << Check("validate_namespace",
             IF IsSome(namespace) THEN validate_namespace(Unwrap(namespace)) ELSE TRUE) >>

\* update_cluster's checks without the one of the instance count
update_cluster_checks_without_instances(namespace, name, p) == path_checks(namespace, name)

update_cluster_checks(namespace, name, p) ==
    path_checks(namespace, name) \o
    << Check("validate_instance_count",
             IF IsSome(p.instances) THEN validate_instance_count(Unwrap(p.instances))
             ELSE TRUE) >>

\* create_notebook's checks without the one of cpu_limit
create_notebook_checks_without_cpu_limit(p) ==
    << Check("validate_resource_name", validate_resource_name(p.name)),
       Check("validate_image_name", validate_image_name(p.image)),
       Check("validate_namespace",
             IF IsSome(p.namespace) THEN validate_namespace(Unwrap(p.namespace)) ELSE TRUE),
       Check("validate_cpu_resource",
             IF IsSome(p.cpu_request) THEN validate_cpu_resource(Unwrap(p.cpu_request))
             ELSE TRUE),
       Check("validate_memory_resource",
             IF IsSome(p.memory_request)
             THEN validate_memory_resource(Unwrap(p.memory_request)) ELSE TRUE),
       Check("validate_memory_resource",
             IF IsSome(p.memory_limit)
             THEN validate_memory_resource(Unwrap(p.memory_limit)) ELSE TRUE),
       Check("validate_storage_size",
             IF IsSome(p.workspace_volume_size)
             THEN validate_storage_size(Unwrap(p.workspace_volume_size)) ELSE TRUE) >>

create_notebook_checks(p) ==
    << Check("validate_resource_name", validate_resource_name(p.name)),
       Check("validate_image_name", validate_image_name(p.image)),
       Check("validate_namespace",
             IF IsSome(p.namespace) THEN validate_namespace(Unwrap(p.namespace)) ELSE TRUE),
       Check("validate_cpu_resource",
             IF IsSome(p.cpu_request) THEN validate_cpu_resource(Unwrap(p.cpu_request))
             ELSE TRUE),
       Check("validate_cpu_resource",
             IF IsSome(p.cpu_limit) THEN validate_cpu_resource(Unwrap(p.cpu_limit))
             ELSE TRUE),
       Check("validate_memory_resource",
             IF IsSome(p.memory_request)
             THEN validate_memory_resource(Unwrap(p.memory_request)) ELSE TRUE),
       Check("validate_memory_resource",
             IF IsSome(p.memory_limit)
             THEN validate_memory_resource(Unwrap(p.memory_limit)) ELSE TRUE),
       Check("validate_storage_size",
             IF IsSome(p.workspace_volume_size)
             THEN validate_storage_size(Unwrap(p.workspace_volume_size)) ELSE TRUE) >>

update_notebook_checks(namespace, name, p) ==
    path_checks(namespace, name) \o
    << Check("validate_image_name",
             IF IsSome(p.image) THEN validate_image_name(Unwrap(p.image)) ELSE TRUE),
       Check("validate_cpu_resource",
             IF IsSome(p.cpu_request) THEN validate_cpu_resource(Unwrap(p.cpu_request))
             ELSE TRUE),
       Check("validate_cpu_resource",
             IF IsSome(p.cpu_limit) THEN validate_cpu_resource(Unwrap(p.cpu_limit))
             ELSE TRUE),
       Check("validate_memory_resource",
             IF IsSome(p.memory_request)
             THEN validate_memory_resource(Unwrap(p.memory_request)) ELSE TRUE),
       Check("validate_memory_resource",
             IF IsSome(p.memory_limit)
             THEN validate_memory_resource(Unwrap(p.memory_limit)) ELSE TRUE) >>

\* the checks of the handler a request is routed to
HandlerChecks(r) ==
    CASE r.op = "create" /\ r.kind = "cnpg"     -> create_cluster_checks(r.payload)
      [] r.op = "create" /\ r.kind = "kubeflow" -> create_notebook_checks(r.payload)
      [] r.op = "update" /\ r.kind = "cnpg"     ->
           update_cluster_checks(r.namespace, r.name, r.payload)
      [] r.op = "update" /\ r.kind = "kubeflow" ->
           update_notebook_checks(r.namespace, r.name, r.payload)
      [] r.op = "list"                          -> list_checks(r.namespace)
      [] OTHER                                  -> path_checks(r.namespace, r.name)

----------------------------------------------------------------------------
(* The requests the model receives                                           *)

\* requests received in one behaviour, one at a time
MaxRequests == 3

\* requests received in one behaviour, two in flight at a time
MaxConcurrentRequests == 2

\* calls failed by the orchestrator or the transport in one behaviour
MaxFailures == 1

\* the handlers in flight at one time: a request takes the first free slot
Slots == {1, 2}

DefaultNamespace == <<"d","e","f","a","u","l","t">>

\* resource names and namespaces: valid ones, and ones a rule rejects
NameA == <<"a">>

BadName == <<"-","a">>

NamespaceN == <<"n">>

BadNamespace == <<"N">>

Gi1 == <<"1","G","i">>

Gi4 == <<"4","G","i">>

GB1 == <<"1","G","B">>

Image1 == <<"j",":","1">>

Image2 == <<"j",":","2">>

BaseCluster ==
    [ name |-> NameA, namespace |-> None, instances |-> 3,
      database_name |-> <<"a","p","p">>, database_owner |-> <<"o","w">>,
      secret_name |-> <<"s">>, storage_size |-> Gi1, storage_class |-> None,
      postgresql_parameters |-> None, monitoring_enabled |-> None ]

Params1 == [x \in {"max_connections"} |-> <<"1","0","0">>]

Params2 == [x \in {"work_mem"} |-> <<"4","M","B">>]

Env1 == [x \in {"A"} |-> <<"1">>]

Env2 == [x \in {"B"} |-> <<"2">>]

\* a cluster with every optional section
TunedCluster ==
    [BaseCluster EXCEPT !.postgresql_parameters = Some(Params1),
                        !.monitoring_enabled = Some(TRUE)]

CreateClusterPayloads ==
    { BaseCluster,
      [BaseCluster EXCEPT !.namespace = Some(NamespaceN), !.monitoring_enabled = Some(TRUE),
                          !.instances = 10],
      [BaseCluster EXCEPT !.name = BadName],
      [BaseCluster EXCEPT !.database_name = <<"1","a">>],
      [BaseCluster EXCEPT !.database_owner = <<>>],
      [BaseCluster EXCEPT !.instances = 0],
      [BaseCluster EXCEPT !.instances = 11],
      [BaseCluster EXCEPT !.storage_size = GB1],
      [BaseCluster EXCEPT !.namespace = Some(BadNamespace)] }

NoClusterUpdate ==
    [instances |-> None, postgresql_parameters |-> None, monitoring_enabled |-> None]

UpdateClusterPayloads ==
    { [NoClusterUpdate EXCEPT !.instances = Some(5)],
      [NoClusterUpdate EXCEPT !.monitoring_enabled = Some(FALSE)],
      [NoClusterUpdate EXCEPT !.postgresql_parameters = Some(Params2)],
      [NoClusterUpdate EXCEPT !.instances = Some(11)],
      [NoClusterUpdate EXCEPT !.instances = Some(0)] }

BaseNotebook ==
    [ name |-> NameA, namespace |-> None, image |-> Image1,
      cpu_request |-> None, cpu_limit |-> None, memory_request |-> None,
      memory_limit |-> None, gpu_limit |-> None, workspace_volume_size |-> None,
      workspace_volume_mount |-> None, environment_variables |-> None,
      service_account |-> None ]

WorkspaceNotebook ==
    [BaseNotebook EXCEPT !.workspace_volume_size = Some(Gi1), !.cpu_limit = Some(<<"1">>)]

\* a notebook with a workspace, resources, environment and service account
TunedNotebook ==
    [WorkspaceNotebook EXCEPT !.cpu_request = Some(<<"1">>),
                              !.environment_variables = Some(Env1),
                              !.service_account = Some(<<"s","a">>)]

CreateNotebookPayloads ==
    { BaseNotebook,
      WorkspaceNotebook,
      [BaseNotebook EXCEPT !.name = BadName],
      [BaseNotebook EXCEPT !.image = <<"j">>],
      [BaseNotebook EXCEPT !.namespace = Some(BadNamespace)],
      [BaseNotebook EXCEPT !.cpu_request = Some(<<"x">>)],
      [BaseNotebook EXCEPT !.cpu_limit = Some(<<"1",".","m">>)],
      [BaseNotebook EXCEPT !.memory_request = Some(<<"G","i">>)],
      [BaseNotebook EXCEPT !.memory_limit = Some(GB1)],
      [BaseNotebook EXCEPT !.workspace_volume_size = Some(<<"5">>)] }

NoNotebookUpdate ==
    [ image |-> None, cpu_request |-> None, cpu_limit |-> None,
      memory_request |-> None, memory_limit |-> None, gpu_limit |-> None,
      environment_variables |-> None ]

UpdateNotebookPayloads ==
    { [NoNotebookUpdate EXCEPT !.image = Some(Image2)],
      [NoNotebookUpdate EXCEPT !.memory_limit = Some(Gi4)],
      [NoNotebookUpdate EXCEPT !.environment_variables = Some(Env2)],
      [NoNotebookUpdate EXCEPT !.image = Some(<<>>)],
      [NoNotebookUpdate EXCEPT !.cpu_request = Some(<<"m">>)],
      [NoNotebookUpdate EXCEPT !.cpu_limit = Some(<<"-">>)],
      [NoNotebookUpdate EXCEPT !.memory_request = Some(<<"1","g">>)],
      [NoNotebookUpdate EXCEPT !.memory_limit = Some(<<>>)] }

\* a second container, as a notebook created by another client may hold
SidecarContainer ==
    [ name |-> "sidecar", image |-> <<"s",":","1">>,
      resources |-> Some([requests |-> Some([x \in {"cpu"} |-> <<"1">>]), limits |-> None]),
      env |-> Some(EnvVars(Env1)), volume_mounts |-> None, ports |-> None ]

\* the (namespace, name) paths of get, update and delete
GoodPaths == { <<DefaultNamespace, NameA>> }

BadPaths == { <<BadNamespace, NameA>>, <<DefaultNamespace, BadName>> }

Paths == GoodPaths \cup BadPaths

Kinds == {"cnpg", "kubeflow"}

CreateRequests ==
    {[kind |-> "cnpg", op |-> "create", payload |-> p] : p \in CreateClusterPayloads}
    \cup
    {[kind |-> "kubeflow", op |-> "create", payload |-> p] : p \in CreateNotebookPayloads}

PathRequests ==
    {[kind |-> k, op |-> o, namespace |-> p[1], name |-> p[2]] :
        k \in Kinds, o \in {"get", "delete"}, p \in Paths}
    \cup
    {[kind |-> "cnpg", op |-> "get", namespace |-> NamespaceN, name |-> NameA]}

ListRequests ==
    {[kind |-> k, op |-> "list", namespace |-> n] :
        k \in Kinds, n \in {None, Some(NamespaceN), Some(BadNamespace)}}

UpdateRequest(kind, p, u) ==
    [kind |-> kind, op |-> "update", namespace |-> p[1], name |-> p[2], payload |-> u]

UpdateRequests ==
    {UpdateRequest("cnpg", <<DefaultNamespace, NameA>>, u) : u \in UpdateClusterPayloads}
    \cup
    {UpdateRequest("cnpg", p, [NoClusterUpdate EXCEPT !.instances = Some(5)]) :
        p \in BadPaths}
    \cup
    {UpdateRequest("kubeflow", <<DefaultNamespace, NameA>>, u) : u \in UpdateNotebookPayloads}
    \cup
    {UpdateRequest("kubeflow", p, [NoNotebookUpdate EXCEPT !.image = Some(Image2)]) :
        p \in BadPaths}

\* every request of the model, the ones a validation rule rejects included
AllRequests == CreateRequests \cup PathRequests \cup ListRequests \cup UpdateRequests

\* the requests that pass their handler's validation and write to the store
WriteRequests ==
    {r \in AllRequests : /\ FirstFailed(HandlerChecks(r)) = None
                         /\ r.op \in {"create", "update", "delete"}}

NoRequest == [kind |-> "none", op |-> "none"]

NoResult == [ok |-> FALSE, error |-> [variant |-> "Pending"]]

\* the three stores of the orchestrator
Stores == <<clusters, notebooks, pvcs>>

----------------------------------------------------------------------------
(* The state machine                                                         *)

\* The store is the orchestrator's: when the first request arrives it holds
\* what earlier creates have left in it.
SeedClusters(payloads) ==
    [k \in {<<UnwrapOr(p.namespace, DefaultNamespace), p.name>> : p \in payloads} |->
        LET p == CHOOSE p \in payloads : <<UnwrapOr(p.namespace, DefaultNamespace), p.name>> = k
        IN  Stored(BuildCluster(p, k[1]), k[1])]

SeedNotebooks(payloads) ==
    [k \in {<<UnwrapOr(p.namespace, DefaultNamespace), p.name>> : p \in payloads} |->
        LET p == CHOOSE p \in payloads : <<UnwrapOr(p.namespace, DefaultNamespace), p.name>> = k
        IN  Stored(NewNotebook(p.name, build_notebook_spec(p)), k[1])]

SeedPvcs(payloads) ==
    [k \in {<<UnwrapOr(p.namespace, DefaultNamespace), WorkspacePvcName(p.name)>> :
                p \in {q \in payloads : IsSome(q.workspace_volume_size)}} |->
        LET p == CHOOSE p \in payloads :
                    <<UnwrapOr(p.namespace, DefaultNamespace), WorkspacePvcName(p.name)>> = k
        IN  Stored(WorkspacePvc(k[1], p.name, Unwrap(p.workspace_volume_size)), k[1])]

\* a second container added to every notebook by another client
WithSidecar(store) ==
    [k \in DOMAIN store |->
        [store[k] EXCEPT !.spec.template.spec.containers = @ \o <<SidecarContainer>>]]

InitialStores ==
    { [clusters |-> {}, notebooks |-> {}, sidecar |-> FALSE],
      [clusters |-> {BaseCluster}, notebooks |-> {BaseNotebook}, sidecar |-> FALSE],
      [clusters |-> {BaseCluster}, notebooks |-> {WorkspaceNotebook}, sidecar |-> FALSE],
      [clusters |-> {TunedCluster}, notebooks |-> {TunedNotebook}, sidecar |-> TRUE] }

Init ==
    /\ \E st \in InitialStores :
          /\ clusters = SeedClusters(st.clusters)
          /\ notebooks = IF st.sidecar THEN WithSidecar(SeedNotebooks(st.notebooks))
                         ELSE SeedNotebooks(st.notebooks)
          /\ pvcs = SeedPvcs(st.notebooks)
    /\ req = [s \in Slots |-> NoRequest]
    /\ pc = [s \in Slots |-> "idle"]
    /\ client = [s \in Slots |-> FALSE]
    /\ local = [s \in Slots |-> None]
    /\ calls = [s \in Slots |-> <<>>]
    /\ result = [s \in Slots |-> NoResult]
    /\ started = 0
    /\ failures = 0

\* the namespace a request addresses: `.as_deref().unwrap_or("default")` in
\* create and list, the path's namespace otherwise
TargetNamespace(r) ==
    IF r.op = "create" THEN UnwrapOr(r.payload.namespace, DefaultNamespace)
    ELSE IF r.op = "list" THEN UnwrapOr(r.namespace, DefaultNamespace)
    ELSE r.namespace

TargetName(r) == IF r.op = "create" THEN r.payload.name ELSE r.name

\* where the manager method of a request starts
FirstStep(r) ==
    CASE r.op = "update" -> "read"
      [] r.op = "create" /\ r.kind = "kubeflow" /\ IsSome(r.payload.workspace_volume_size)
                         -> "pvc"
      [] OTHER           -> r.op

\* the handler up to its first await: the validation, in the handler's order
Receive(s, r) ==
    /\ pc[s] = "idle"
    /\ \A t \in Slots : t < s => pc[t] # "idle"
    /\ started' = started + 1
    /\ req' = [req EXCEPT ![s] = r]
    /\ IF IsSome(FirstFailed(HandlerChecks(r)))
       THEN /\ result' = [result EXCEPT ![s] =
                   Err(AppValidation(Msg(Unwrap(FirstFailed(HandlerChecks(r))), <<>>)))]
            /\ pc' = [pc EXCEPT ![s] = "done"]
       ELSE /\ result' = result
            /\ pc' = [pc EXCEPT ![s] = "client"]
    /\ UNCHANGED <<clusters, notebooks, pvcs, client, local, calls, failures>>

\* Client::try_default().await.map_err(|e| AppError::Config(..))?
AcquireClient(s, acquired) ==
    /\ pc[s] = "client"
    /\ IF acquired
       THEN /\ client' = [client EXCEPT ![s] = TRUE]
            /\ pc' = [pc EXCEPT ![s] = FirstStep(req[s])]
            /\ result' = result
            /\ failures' = failures
       ELSE /\ failures < MaxFailures
            /\ failures' = failures + 1
            /\ client' = client
            /\ pc' = [pc EXCEPT ![s] = "done"]
            /\ result' = [result EXCEPT ![s] =
                   Err(AppConfig(Msg("Failed to create Kubernetes client: {}", <<>>)))]
    /\ UNCHANGED <<clusters, notebooks, pvcs, req, local, calls, started>>

\* the handler has returned: the slot is free for the next request
Respond(s) ==
    /\ pc[s] = "done"
    /\ pc' = [pc EXCEPT ![s] = "idle"]
    /\ req' = [req EXCEPT ![s] = NoRequest]
    /\ client' = [client EXCEPT ![s] = FALSE]
    /\ local' = [local EXCEPT ![s] = None]
    /\ calls' = [calls EXCEPT ![s] = <<>>]
    /\ result' = [result EXCEPT ![s] = NoResult]
    /\ UNCHANGED <<clusters, notebooks, pvcs, started, failures>>

At(s, kind, step) == pc[s] = step /\ req[s].kind = kind

\* the calls that fail whatever the store holds are counted
Inject(fault) ==
    IF fault = NoFault THEN failures' = failures
    ELSE failures < MaxFailures /\ failures' = failures + 1

\* a manager step that ends the request with `res`, having issued `call`
Finish(s, call, res) ==
    /\ calls' = [calls EXCEPT ![s] = Append(@, call)]
    /\ result' = [result EXCEPT ![s] = res]
    /\ pc' = [pc EXCEPT ![s] = "done"]

\* serde_json::to_value of a Cluster or a Notebook
ToValue(apiVersion, kind, obj) ==
    [apiVersion |-> apiVersion, kind |-> kind, metadata |-> obj.metadata, spec |-> obj.spec]

----------------------------------------------------------------------------
(* src/src/resources/cnpg.rs: CnpgManager                                    *)

ClusterNotFound(name, namespace) ==
    AppNotFound(Msg("CNPG cluster '{}' not found in namespace '{}'", <<name, namespace>>))

\* `Err(kube::Error::Api(err)) if err.code == 404 => NotFound, Err(e) => Kube(e)`
ClusterError(err, name, namespace) ==
    IF err.type = "Api" /\ err.code = 404
    THEN ClusterNotFound(name, namespace)
    ELSE AppKube(err)

ClusterAck(message, obj) ==
    [ message |-> message, name |-> obj.metadata.name,
      namespace |-> obj.metadata.namespace, resource_type |-> "cnpg-cluster" ]

\* CnpgManager::create
CnpgCreate(s, fault) ==
    /\ At(s, "cnpg", "create")
    /\ Inject(fault)
    /\ LET ns  == TargetNamespace(req[s])
           nm  == req[s].payload.name
           out == ApiCreate(clusters, ns, nm, BuildCluster(req[s].payload, ns), fault)
       IN  /\ clusters' = out.store
           /\ Finish(s, Call("Cluster", "create", ns, nm, out),
                     IF out.ok
                     THEN Ok(ClusterAck("CNPG cluster created successfully", out.val))
                     ELSE Err(AppKube(out.err)))
    /\ UNCHANGED <<notebooks, pvcs, req, client, local, started>>

\* CnpgManager::get, and get_cluster's serde_json::to_value
CnpgGet(s, fault) ==
    /\ At(s, "cnpg", "get")
    /\ Inject(fault)
    /\ LET ns  == req[s].namespace
           nm  == req[s].name
           out == ApiGet(clusters, ns, nm, fault)
       IN  Finish(s, Call("Cluster", "get", ns, nm, out),
                  IF out.ok
                  THEN Ok(ToValue("postgresql.cnpg.io/v1", "Cluster", out.val))
                  ELSE Err(ClusterError(out.err, nm, ns)))
    /\ UNCHANGED <<clusters, notebooks, pvcs, req, client, local, started>>

ClusterInfo(cluster) ==
    [ name |-> cluster.metadata.name, namespace |-> cluster.metadata.namespace,
      instances |-> cluster.spec.instances,
      creation_timestamp |-> cluster.metadata.creation_timestamp,
      resource_type |-> "cnpg-cluster" ]

\* the envelope CnpgManager::list returns
ClusterEnvelope(items) ==
    [ resources |-> {ClusterInfo(c) : c \in items},
      count |-> Cardinality(items),
      resource_type |-> "cnpg-clusters" ]

\* CnpgManager::list
CnpgList(s, fault) ==
    /\ At(s, "cnpg", "list")
    /\ Inject(fault)
    /\ LET ns  == TargetNamespace(req[s])
           out == ApiList(clusters, ns, fault)
       IN  Finish(s, Call("Cluster", "list", ns, <<>>, out),
                  IF out.ok THEN Ok(ClusterEnvelope(out.val.items))
                  ELSE Err(AppKube(out.err)))
    /\ UNCHANGED <<clusters, notebooks, pvcs, req, client, local, started>>

\* CnpgManager::update, the get
CnpgUpdateRead(s, fault) ==
    /\ At(s, "cnpg", "read")
    /\ Inject(fault)
    /\ LET ns  == req[s].namespace
           nm  == req[s].name
           out == ApiGet(clusters, ns, nm, fault)
       IN  /\ calls' = [calls EXCEPT ![s] = Append(@, Call("Cluster", "get", ns, nm, out))]
           /\ IF out.ok
              THEN /\ local' = [local EXCEPT ![s] = Some(out.val)]
                   /\ pc' = [pc EXCEPT ![s] = "write"]
                   /\ result' = result
              ELSE /\ local' = local
                   /\ pc' = [pc EXCEPT ![s] = "done"]
                   /\ result' = [result EXCEPT ![s] = Err(ClusterError(out.err, nm, ns))]
    /\ UNCHANGED <<clusters, notebooks, pvcs, req, client, started>>

\* CnpgManager::update, the overlay and the replace
CnpgUpdateWrite(s, fault) ==
    /\ At(s, "cnpg", "write")
    /\ Inject(fault)
    /\ LET ns  == req[s].namespace
           nm  == req[s].name
           out == ApiReplace(clusters, ns, nm,
                             ApplyClusterUpdate(Unwrap(local[s]), req[s].payload), fault)
       IN  /\ clusters' = out.store
           /\ Finish(s, Call("Cluster", "replace", ns, nm, out),
                     IF out.ok
                     THEN Ok(ClusterAck("CNPG cluster updated successfully", out.val))
                     ELSE Err(AppKube(out.err)))
    /\ UNCHANGED <<notebooks, pvcs, req, client, local, started>>

\* CnpgManager::delete
CnpgDelete(s, fault) ==
    /\ At(s, "cnpg", "delete")
    /\ Inject(fault)
    /\ LET ns  == req[s].namespace
           nm  == req[s].name
           out == ApiDelete(clusters, ns, nm, fault)
       IN  /\ clusters' = out.store
           /\ Finish(s, Call("Cluster", "delete", ns, nm, out),
                     IF out.ok
                     THEN Ok([ message |-> Msg("CNPG cluster '{}' deleted successfully", <<nm>>),
                               resource_type |-> "cnpg-cluster" ])
                     ELSE Err(ClusterError(out.err, nm, ns)))
    /\ UNCHANGED <<notebooks, pvcs, req, client, local, started>>

----------------------------------------------------------------------------
(* src/src/resources/kubeflow.rs: KubeflowManager                            *)

NotebookValue(obj) == ToValue("kubeflow.org/v1", "Notebook", obj)

\* a create_workspace_pvc whose failure fails create: `Err(e) => Err(Kube(e))`
KubeflowCreatePvcStrict(s, fault) ==
    /\ At(s, "kubeflow", "pvc")
    /\ Inject(fault)
    /\ LET ns  == TargetNamespace(req[s])
           nm  == WorkspacePvcName(req[s].payload.name)
           out == ApiCreate(pvcs, ns, nm,
                            WorkspacePvc(ns, req[s].payload.name,
                                         Unwrap(req[s].payload.workspace_volume_size)),
                            fault)
       IN  /\ pvcs' = out.store
           /\ calls' = [calls EXCEPT ![s] =
                           Append(@, Call("PersistentVolumeClaim", "create", ns, nm, out))]
           /\ IF out.ok
              THEN /\ pc' = [pc EXCEPT ![s] = "create"]
                   /\ result' = result
              ELSE /\ pc' = [pc EXCEPT ![s] = "done"]
                   /\ result' = [result EXCEPT ![s] = Err(AppKube(out.err))]
    /\ UNCHANGED <<clusters, notebooks, req, client, local, started>>

\* KubeflowManager::create_workspace_pvc, called by create: whatever the
\* orchestrator answers, create goes on
KubeflowCreatePvc(s, fault) ==
    /\ At(s, "kubeflow", "pvc")
    /\ Inject(fault)
    /\ LET ns  == TargetNamespace(req[s])
           nm  == WorkspacePvcName(req[s].payload.name)
           out == ApiCreate(pvcs, ns, nm,
                            WorkspacePvc(ns, req[s].payload.name,
                                         Unwrap(req[s].payload.workspace_volume_size)),
                            fault)
       IN  /\ pvcs' = out.store
           /\ calls' = [calls EXCEPT ![s] =
                           Append(@, Call("PersistentVolumeClaim", "create", ns, nm, out))]
           /\ pc' = [pc EXCEPT ![s] = "create"]
    /\ UNCHANGED <<clusters, notebooks, req, client, local, result, started>>

\* a create that takes back the claim it has provisioned when the creation of
\* the notebook fails
KubeflowCreateRollingBack(s, fault) ==
    /\ At(s, "kubeflow", "create")
    /\ Inject(fault)
    /\ LET ns   == TargetNamespace(req[s])
           nm   == req[s].payload.name
           out  == ApiCreate(notebooks, ns, nm,
                             NewNotebook(nm, build_notebook_spec(req[s].payload)), fault)
           made == calls[s] # <<>> /\ calls[s][1].ok
       IN  /\ notebooks' = out.store
           /\ pvcs' = IF ~out.ok /\ made THEN Remove(pvcs, <<ns, WorkspacePvcName(nm)>>)
                      ELSE pvcs
           /\ Finish(s, Call("Notebook", "create", ns, nm, out),
                     IF out.ok THEN Ok(NotebookValue(out.val))
                     ELSE Err(AppKube(out.err)))
    /\ UNCHANGED <<clusters, req, client, local, started>>

\* KubeflowManager::create, from build_notebook_spec on
KubeflowCreate(s, fault) ==
    /\ At(s, "kubeflow", "create")
    /\ Inject(fault)
    /\ LET ns  == TargetNamespace(req[s])
           nm  == req[s].payload.name
           out == ApiCreate(notebooks, ns, nm,
                            NewNotebook(nm, build_notebook_spec(req[s].payload)), fault)
       IN  /\ notebooks' = out.store
           /\ Finish(s, Call("Notebook", "create", ns, nm, out),
                     IF out.ok THEN Ok(NotebookValue(out.val))
                     ELSE Err(AppKube(out.err)))
    /\ UNCHANGED <<clusters, pvcs, req, client, local, started>>

\* KubeflowManager::get, and get_notebook's serde_json::to_value
KubeflowGet(s, fault) ==
    /\ At(s, "kubeflow", "get")
    /\ Inject(fault)
    /\ LET ns  == req[s].namespace
           nm  == req[s].name
           out == ApiGet(notebooks, ns, nm, fault)
       IN  Finish(s, Call("Notebook", "get", ns, nm, out),
                  IF out.ok THEN Ok(NotebookValue(out.val))
                  ELSE Err(AppKube(out.err)))
    /\ UNCHANGED <<clusters, notebooks, pvcs, req, client, local, started>>

\* serde_json::to_value of the ObjectList<Notebook>
NotebookListValue(list) ==
    [ apiVersion |-> "kubeflow.org/v1", kind |-> "NotebookList",
      metadata |-> [resource_version |-> None],
      items |-> {NotebookValue(n) : n \in list.items} ]

\* KubeflowManager::list
KubeflowList(s, fault) ==
    /\ At(s, "kubeflow", "list")
    /\ Inject(fault)
    /\ LET ns  == TargetNamespace(req[s])
           out == ApiList(notebooks, ns, fault)
       IN  Finish(s, Call("Notebook", "list", ns, <<>>, out),
                  IF out.ok THEN Ok(NotebookListValue(out.val))
                  ELSE Err(AppKube(out.err)))
    /\ UNCHANGED <<clusters, notebooks, pvcs, req, client, local, started>>

\* KubeflowManager::update, the self.get(..).await?
KubeflowUpdateRead(s, fault) ==
    /\ At(s, "kubeflow", "read")
    /\ Inject(fault)
    /\ LET ns  == req[s].namespace
           nm  == req[s].name
           out == ApiGet(notebooks, ns, nm, fault)
       IN  /\ calls' = [calls EXCEPT ![s] = Append(@, Call("Notebook", "get", ns, nm, out))]
           /\ IF out.ok
              THEN /\ local' = [local EXCEPT ![s] = Some(out.val)]
                   /\ pc' = [pc EXCEPT ![s] = "write"]
                   /\ result' = result
              ELSE /\ local' = local
                   /\ pc' = [pc EXCEPT ![s] = "done"]
                   /\ result' = [result EXCEPT ![s] = Err(AppKube(out.err))]
    /\ UNCHANGED <<clusters, notebooks, pvcs, req, client, started>>

\* an update whose patch is built from the notebook stored at the time of the
\* write, not from the one read
KubeflowUpdateWriteFresh(s, fault) ==
    /\ At(s, "kubeflow", "write")
    /\ Inject(fault)
    /\ LET ns  == req[s].namespace
           nm  == req[s].name
           cur == IF Present(notebooks, ns, nm) THEN notebooks[<<ns, nm>>]
                  ELSE Unwrap(local[s])
           out == ApiPatchMerge(notebooks, ns, nm,
                                build_update_spec(cur.spec, req[s].payload), fault)
       IN  /\ notebooks' = out.store
           /\ Finish(s, Call("Notebook", "patch", ns, nm, out),
                     IF out.ok THEN Ok(NotebookValue(out.val))
                     ELSE Err(AppKube(out.err)))
    /\ UNCHANGED <<clusters, pvcs, req, client, local, started>>

\* KubeflowManager::update, build_update_spec and the merge patch
KubeflowUpdateWrite(s, fault) ==
    /\ At(s, "kubeflow", "write")
    /\ Inject(fault)
    /\ LET ns  == req[s].namespace
           nm  == req[s].name
           out == ApiPatchMerge(notebooks, ns, nm,
                                build_update_spec(Unwrap(local[s]).spec, req[s].payload),
                                fault)
       IN  /\ notebooks' = out.store
           /\ Finish(s, Call("Notebook", "patch", ns, nm, out),
                     IF out.ok THEN Ok(NotebookValue(out.val))
                     ELSE Err(AppKube(out.err)))
    /\ UNCHANGED <<clusters, pvcs, req, client, local, started>>

\* KubeflowManager::delete, the deletion of the notebook
KubeflowDelete(s, fault) ==
    /\ At(s, "kubeflow", "delete")
    /\ Inject(fault)
    /\ LET ns  == req[s].namespace
           nm  == req[s].name
           out == ApiDelete(notebooks, ns, nm, fault)
       IN  /\ notebooks' = out.store
           /\ calls' = [calls EXCEPT ![s] = Append(@, Call("Notebook", "delete", ns, nm, out))]
           /\ IF out.ok
              THEN /\ pc' = [pc EXCEPT ![s] = "pvcdel"]
                   /\ result' = result
              ELSE /\ pc' = [pc EXCEPT ![s] = "done"]
                   /\ result' = [result EXCEPT ![s] = Err(AppKube(out.err))]
    /\ UNCHANGED <<clusters, pvcs, req, client, local, started>>

\* a delete_workspace_pvc whose failure fails delete: `delete_workspace_pvc(..)?`
\* with `Err(e) => Err(Kube(e))`
KubeflowDeletePvcStrict(s, fault) ==
    /\ At(s, "kubeflow", "pvcdel")
    /\ Inject(fault)
    /\ LET ns  == req[s].namespace
           nm  == WorkspacePvcName(req[s].name)
           out == ApiDelete(pvcs, ns, nm, fault)
       IN  /\ pvcs' = out.store
           /\ Finish(s, Call("PersistentVolumeClaim", "delete", ns, nm, out),
                     IF out.ok
                     THEN Ok([status |-> "deleted", name |-> req[s].name, namespace |-> ns])
                     ELSE Err(AppKube(out.err)))
    /\ UNCHANGED <<clusters, notebooks, req, client, local, started>>

\* a delete_workspace_pvc that deletes the claim under the name of the volume,
\* format!("{}-workspace", notebook_name)
KubeflowDeletePvcNamedAsVolume(s, fault) ==
    /\ At(s, "kubeflow", "pvcdel")
    /\ Inject(fault)
    /\ LET ns  == req[s].namespace
           nm  == WorkspaceVolumeName(req[s].name)
           out == ApiDelete(pvcs, ns, nm, fault)
       IN  /\ pvcs' = out.store
           /\ Finish(s, Call("PersistentVolumeClaim", "delete", ns, nm, out),
                     Ok([status |-> "deleted", name |-> req[s].name, namespace |-> ns]))
    /\ UNCHANGED <<clusters, notebooks, req, client, local, started>>

\* KubeflowManager::delete_workspace_pvc, called by delete: `let _ = ..`
KubeflowDeletePvc(s, fault) ==
    /\ At(s, "kubeflow", "pvcdel")
    /\ Inject(fault)
    /\ LET ns  == req[s].namespace
           nm  == WorkspacePvcName(req[s].name)
           out == ApiDelete(pvcs, ns, nm, fault)
       IN  /\ pvcs' = out.store
           /\ Finish(s, Call("PersistentVolumeClaim", "delete", ns, nm, out),
                     Ok([status |-> "deleted", name |-> req[s].name, namespace |-> ns]))
    /\ UNCHANGED <<clusters, notebooks, req, client, local, started>>

----------------------------------------------------------------------------

\* One request at a time, drawn from all the requests: every handler, on valid
\* input and on every input a validation rule rejects.
Next ==
    \/ \E r \in AllRequests : started < MaxRequests /\ Receive(1, r)
    \/ \E acquired \in BOOLEAN : AcquireClient(1, acquired)
    \/ Respond(1)
    \/ \E fault \in Faults \cup {NoFault} :
          \/ CnpgCreate(1, fault)
          \/ CnpgGet(1, fault)
          \/ CnpgList(1, fault)
          \/ CnpgUpdateRead(1, fault)
          \/ CnpgUpdateWrite(1, fault)
          \/ CnpgDelete(1, fault)
          \/ KubeflowCreatePvc(1, fault)
          \/ KubeflowCreate(1, fault)
          \/ KubeflowGet(1, fault)
          \/ KubeflowList(1, fault)
          \/ KubeflowUpdateRead(1, fault)
          \/ KubeflowUpdateWrite(1, fault)
          \/ KubeflowDelete(1, fault)
          \/ KubeflowDeletePvc(1, fault)

Spec == Init /\ [][Next]_vars

\* the managers treat alike every failure of a call but a 404: a conflict and
\* a server error stand for them where requests interleave
ConcurrentFaults == {ApiFault(409), ApiFault(500)}

\* Two requests in flight: the writing handlers interleave at each of their
\* orchestrator calls.
NextConcurrent ==
    \/ \E s \in Slots, r \in WriteRequests :
          started < MaxConcurrentRequests /\ Receive(s, r)
    \/ \E s \in Slots, acquired \in BOOLEAN : AcquireClient(s, acquired)
    \/ \E s \in Slots : Respond(s)
    \/ \E s \in Slots, fault \in ConcurrentFaults \cup {NoFault} :
          \/ CnpgCreate(s, fault)
          \/ CnpgUpdateRead(s, fault)
          \/ CnpgUpdateWrite(s, fault)
          \/ CnpgDelete(s, fault)
          \/ KubeflowCreatePvc(s, fault)
          \/ KubeflowCreate(s, fault)
          \/ KubeflowUpdateRead(s, fault)
          \/ KubeflowUpdateWrite(s, fault)
          \/ KubeflowDelete(s, fault)
          \/ KubeflowDeletePvc(s, fault)

SpecConcurrent == Init /\ [][NextConcurrent]_vars

----------------------------------------------------------------------------
(* The builders and the classifier on their own: each is applied once to an  *)
(* input drawn from the values of its parameter types.                       *)

\* CreateClusterRequest values that differ in the optional fields
BuilderClusterRequests ==
    { [BaseCluster EXCEPT !.monitoring_enabled = m, !.postgresql_parameters = p,
                          !.storage_class = c] :
        m \in {None, Some(TRUE), Some(FALSE)},
        p \in {None, Some(Params1)},
        c \in {None, Some(<<"f","a","s","t">>)} }

\* UpdateClusterRequest values
BuilderClusterUpdates ==
    { [instances |-> i, postgresql_parameters |-> p, monitoring_enabled |-> m] :
        i \in {None, Some(5)},
        p \in {None, Some(Params2), Some(EmptyMap)},
        m \in {None, Some(TRUE), Some(FALSE)} }

\* the clusters update may read: the ones create builds, and ones whose
\* monitoring section another client has written, disableDefaultQueries set
ExistingClusters ==
    { BuildCluster(p, DefaultNamespace) : p \in BuilderClusterRequests }
    \cup
    { [BuildCluster(BaseCluster, DefaultNamespace) EXCEPT !.spec.monitoring =
            Some([enable_pod_monitor |-> e, disable_default_queries |-> TRUE])] :
        e \in BOOLEAN }

\* CreateNotebookRequest values: every choice of the five resource fields, and
\* requests with a workspace, environment variables and a service account
BuilderNotebookRequests ==
    { [BaseNotebook EXCEPT !.cpu_request = a, !.cpu_limit = b, !.memory_request = c,
                           !.memory_limit = d, !.gpu_limit = e] :
        a \in {None, Some(<<"1">>)}, b \in {None, Some(<<"2">>)},
        c \in {None, Some(Gi1)}, d \in {None, Some(Gi4)}, e \in {None, Some(<<"1">>)} }
    \cup
    { TunedNotebook,
      [WorkspaceNotebook EXCEPT !.cpu_request = Some(<<"1">>),
                                !.workspace_volume_mount = Some(<<"/","w">>)],
      [WorkspaceNotebook EXCEPT !.name = <<"n","b">>],
      [BaseNotebook EXCEPT !.workspace_volume_mount = Some(<<"/","w">>)] }

\* NotebookSpec values an update can read: specs create builds, a spec with two
\* containers, one whose requests map is empty, and one with no container
ExistingNotebookSpecs ==
    { build_notebook_spec(p) :
        p \in {BaseNotebook, WorkspaceNotebook, TunedNotebook} }
    \cup
    { [build_notebook_spec(WorkspaceNotebook) EXCEPT
          !.template.spec.containers = @ \o <<SidecarContainer>>],
      [build_notebook_spec(TunedNotebook) EXCEPT
          !.template.spec.containers[1].resources =
              Some([requests |-> Unwrap(@).requests,
                    limits   |-> Some(MapInsert(Unwrap(Unwrap(@).limits),
                                                "ephemeral-storage", Gi1))])],
      [build_notebook_spec(WorkspaceNotebook) EXCEPT
          !.template.spec.containers[1].resources =
              Some([requests |-> Some(EmptyMap), limits |-> Unwrap(@).limits])],
      [build_notebook_spec(BaseNotebook) EXCEPT !.template.spec.containers = <<>>] }

\* UpdateNotebookRequest values
BuilderNotebookUpdates ==
    { [NoNotebookUpdate EXCEPT !.image = i, !.cpu_request = a, !.memory_limit = d,
                               !.gpu_limit = e, !.environment_variables = v] :
        i \in {None, Some(Image2)}, a \in {None, Some(<<"3">>)},
        d \in {None, Some(Gi4)}, e \in {None, Some(<<"1">>)},
        v \in {None, Some(Env2), Some(EmptyMap)} }

\* the text of a serde_json::Error or serde_yaml::Error
RawEncodingError == Msg("expected value at line 1 column 1", <<>>)

AppSerde(err) == [variant |-> "Serde", msg |-> err]

AppJson(err) == [variant |-> "Json", msg |-> err]

\* kube::Error::SerdeError: the answer of the orchestrator does not decode
KubeSerde == [type |-> "Serde", code |-> 0, message |-> RawEncodingError]

\* create_workspace_pvc, the map_err of from_value
PvcSpecError == AppInternal(WrapMsg("Failed to create PVC spec: {}", RawEncodingError))

\* get_cluster and get_notebook, the map_err of to_value
SerializeError(what) == AppInternal(WrapMsg(what, RawEncodingError))

\* AppError values, every variant
AppErrors ==
    { AppKube(KubeApi(c, Msg("status {}", <<NameA>>))) : c \in {400, 401, 403, 404, 409, 422, 500, 503} }
    \cup
    { AppKube(KubeAuth), AppKube(KubeTransport), AppKube(KubeSerde),
      AppSerde(RawEncodingError), AppJson(RawEncodingError),
      PvcSpecError,
      SerializeError("Failed to serialize cluster: {}"),
      SerializeError("Failed to serialize notebook: {}"),
      AppNotFound(Msg("CNPG cluster '{}' not found in namespace '{}'", <<NameA, DefaultNamespace>>)),
      AppValidation(Msg("validate_resource_name", <<>>)),
      AppConfig(Msg("Failed to create Kubernetes client: {}", <<>>)),
      [variant |-> "BadRequest", msg |-> Msg("bad request", <<>>)],
      [variant |-> "Network", msg |-> Msg("network", <<>>)],
      [variant |-> "Timeout", msg |-> Msg("timeout", <<>>)] }

BuilderInput(fn, input, existing) ==
    [kind |-> "builder", op |-> fn, payload |-> input, existing |-> existing]

BuilderInputs ==
    { BuilderInput("build_cluster_spec", p, None) : p \in BuilderClusterRequests }
    \cup
    { BuilderInput("cluster_update", u, Some(c)) :
        u \in BuilderClusterUpdates, c \in ExistingClusters }
    \cup
    { BuilderInput("build_notebook_spec", p, None) : p \in BuilderNotebookRequests }
    \cup
    { BuilderInput("build_update_spec", u, Some(e)) :
        u \in BuilderNotebookUpdates, e \in ExistingNotebookSpecs }
    \cup
    { BuilderInput("into_response", e, None) : e \in AppErrors }

InitBuilders ==
    /\ clusters = <<>> /\ notebooks = <<>> /\ pvcs = <<>>
    /\ \E i \in BuilderInputs : req = [s \in Slots |-> IF s = 1 THEN i ELSE NoRequest]
    /\ pc = [s \in Slots |-> IF s = 1 THEN "apply" ELSE "idle"]
    /\ client = [s \in Slots |-> FALSE]
    /\ local = [s \in Slots |-> None]
    /\ calls = [s \in Slots |-> <<>>]
    /\ result = [s \in Slots |-> NoResult]
    /\ started = 1
    /\ failures = 0

\* the function named `fn` returns `res`
Apply(fn, res) ==
    /\ At(1, "builder", "apply")
    /\ req[1].op = fn
    /\ result' = [result EXCEPT ![1] = res]
    /\ pc' = [pc EXCEPT ![1] = "done"]
    /\ UNCHANGED <<clusters, notebooks, pvcs, req, client, local, calls, started, failures>>

ApplyBuildClusterSpec == Apply("build_cluster_spec", Ok(BuildClusterSpec(req[1].payload)))

ApplyClusterUpdateOverlay ==
    Apply("cluster_update", Ok(ApplyClusterUpdate(Unwrap(req[1].existing), req[1].payload)))

ApplyBuildNotebookSpec == Apply("build_notebook_spec", Ok(build_notebook_spec(req[1].payload)))

ApplyBuildUpdateSpec ==
    Apply("build_update_spec", Ok(build_update_spec(Unwrap(req[1].existing), req[1].payload)))

ApplyIntoResponse == Apply("into_response", Err(req[1].payload))

NextBuilders ==
    \/ ApplyBuildClusterSpec
    \/ ApplyClusterUpdateOverlay
    \/ ApplyBuildNotebookSpec
    \/ ApplyBuildUpdateSpec
    \/ ApplyIntoResponse

SpecBuilders == InitBuilders /\ [][NextBuilders]_vars

----------------------------------------------------------------------------
(* The validation rules on their own: each is applied once to an argument    *)
(* drawn from the values of its parameter type.                              *)

\* the longest string of the alphabets below that a rule is applied to
MaxLen == 3

\* every string over `alphabet` of at most n characters
Strings(alphabet, n) == UNION { [1..k -> alphabet] : k \in 0..n }

\* i32 values around the limits of the rule, and the ends of the type
InstanceCounts == (-3..14) \cup {-2147483647 - 1, 2147483647}

\* short strings, the strings of test_validate_cpu_resource, and strings that
\* str::parse reads in its own way
CpuStrings ==
    Strings({"1", "0", "m", ".", "n", "a", "-"}, MaxLen)
    \cup
         { <<"1","0","0","m">>,
           <<"2",".","5">>,
           <<"i","n","v","a","l","i","d">>,
           <<"i","n","f","i","n","i","t","y">>,
           <<"N","a","N">>,
           <<"1","e","3">>,
           <<"+","1","m">>,
           <<"-","1",".","5">>,
           <<"4","2","9","4","9","6","7","2","9","5","m">>,
           <<"4","2","9","4","9","6","7","2","9","6","m">> }

\* short strings, the strings of test_validate_memory_resource, and strings
\* that str::parse reads in its own way
MemoryStrings ==
    Strings({"1", ".", "G", "i", "B", "E", "n", "a"}, MaxLen)
    \cup
         { <<"1","G","i">>,
           <<"5","0","0","M","i">>,
           <<"2","G">>,
           <<"1","G","B">>,
           <<"2","G","B">>,
           <<"i","n","v","a","l","i","d">>,
           <<"n","a","n","G","i">>,
           <<"i","n","f","K">>,
           <<"-","1","G","i">>,
           <<"1","e","3","M">>,
           <<"1",".","5","T","i">>,
           <<"1","E","i">> }

\* short names, and names around the limit of the length
NameStrings ==
    Strings({"a", "1", "-", ".", "A"}, MaxLen)
    \cup { [i \in 1..n |-> "a"] : n \in 252..255 }
    \cup { [i \in 1..n |-> IF i = n THEN "-" ELSE "a"] : n \in 252..254 }

\* the arguments of the rule on numbers
CountInputs ==
    { BuilderInput("validate_instance_count", n, None) : n \in InstanceCounts }

\* the arguments of the rules on strings
StringInputs ==
    { BuilderInput("validate_cpu_resource", c, None) : c \in CpuStrings }
    \cup
    { BuilderInput(fn, m, None) :
        fn \in {"validate_memory_resource", "validate_storage_size"}, m \in MemoryStrings }
    \cup
    { BuilderInput(fn, n, None) :
        fn \in {"validate_resource_name", "validate_namespace"}, n \in NameStrings }

InitValidators ==
    /\ clusters = <<>> /\ notebooks = <<>> /\ pvcs = <<>>
    /\ \/ \E i \in CountInputs : req = [s \in Slots |-> IF s = 1 THEN i ELSE NoRequest]
       \/ \E i \in StringInputs : req = [s \in Slots |-> IF s = 1 THEN i ELSE NoRequest]
    /\ pc = [s \in Slots |-> IF s = 1 THEN "apply" ELSE "idle"]
    /\ client = [s \in Slots |-> FALSE]
    /\ local = [s \in Slots |-> None]
    /\ calls = [s \in Slots |-> <<>>]
    /\ result = [s \in Slots |-> NoResult]
    /\ started = 1
    /\ failures = 0

\* Result<()>: Ok(()) when the rule holds, Err(AppError::Validation(..)) otherwise
Validated(rule, passed) ==
    Apply(rule, IF passed THEN Ok(<<>>) ELSE Err(AppValidation(Msg(rule, <<>>))))

ApplyValidateInstanceCount ==
    Validated("validate_instance_count", validate_instance_count(req[1].payload))

ApplyValidateCpuResource ==
    Validated("validate_cpu_resource", validate_cpu_resource(req[1].payload))

ApplyValidateMemoryResource ==
    Validated("validate_memory_resource", validate_memory_resource(req[1].payload))

ApplyValidateStorageSize ==
    Validated("validate_storage_size", validate_storage_size(req[1].payload))

ApplyValidateResourceName ==
    Validated("validate_resource_name", validate_resource_name(req[1].payload))

ApplyValidateNamespace ==
    Validated("validate_namespace", validate_namespace(req[1].payload))

NextValidators ==
    \/ ApplyValidateInstanceCount
    \/ ApplyValidateCpuResource
    \/ ApplyValidateMemoryResource
    \/ ApplyValidateStorageSize
    \/ ApplyValidateResourceName
    \/ ApplyValidateNamespace

SpecValidators == InitValidators /\ [][NextValidators]_vars

----------------------------------------------------------------------------
(* The properties                                                            *)

Done(s) == pc[s] = "done"

Failed(s) == Done(s) /\ ~result[s].ok

Succeeded(s) == Done(s) /\ result[s].ok

\* the body {"error": {"type", "message", "status"}} of a request that failed
ErrorBody(s) == result[s].response

Key(r) == <<TargetNamespace(r), TargetName(r)>>

StoreOf(kind) == IF kind = "cnpg" THEN clusters ELSE notebooks

IsOp(s, kind, op) == req[s].kind = kind /\ req[s].op = op

\* some rule that applies to a field of the request rejects it
Rejected(r) ==
    CASE r.op = "create" /\ r.kind = "cnpg" ->
           \/ ~validate_resource_name(r.payload.name)
           \/ ~validate_database_name(r.payload.database_name)
           \/ ~validate_database_name(r.payload.database_owner)
           \/ ~validate_instance_count(r.payload.instances)
           \/ ~validate_storage_size(r.payload.storage_size)
           \/ (\E v \in Range(r.payload.namespace) : ~validate_namespace(v))
      [] r.op = "create" /\ r.kind = "kubeflow" ->
           \/ ~validate_resource_name(r.payload.name)
           \/ ~validate_image_name(r.payload.image)
           \/ (\E v \in Range(r.payload.namespace) : ~validate_namespace(v))
           \/ (\E v \in Range(r.payload.cpu_request) : ~validate_cpu_resource(v))
           \/ (\E v \in Range(r.payload.cpu_limit) : ~validate_cpu_resource(v))
           \/ (\E v \in Range(r.payload.memory_request) : ~validate_memory_resource(v))
           \/ (\E v \in Range(r.payload.memory_limit) : ~validate_memory_resource(v))
           \/ (\E v \in Range(r.payload.workspace_volume_size) : ~validate_storage_size(v))
      [] r.op \in {"get", "delete"} ->
           ~validate_namespace(r.namespace) \/ ~validate_resource_name(r.name)
      [] r.op = "list" -> (\E v \in Range(r.namespace) : ~validate_namespace(v))
      [] r.op = "update" /\ r.kind = "cnpg" ->
           \/ ~validate_namespace(r.namespace)
           \/ ~validate_resource_name(r.name)
           \/ (\E v \in Range(r.payload.instances) : ~validate_instance_count(v))
      [] r.op = "update" /\ r.kind = "kubeflow" ->
           \/ ~validate_namespace(r.namespace)
           \/ ~validate_resource_name(r.name)
           \/ (\E v \in Range(r.payload.image) : ~validate_image_name(v))
           \/ (\E v \in Range(r.payload.cpu_request) : ~validate_cpu_resource(v))
           \/ (\E v \in Range(r.payload.cpu_limit) : ~validate_cpu_resource(v))
           \/ (\E v \in Range(r.payload.memory_request) : ~validate_memory_resource(v))
           \/ (\E v \in Range(r.payload.memory_limit) : ~validate_memory_resource(v))
      [] OTHER -> FALSE

\* C1: for every handler of both kinds, a request with a field that an
\* applicable validation rule rejects returns a Validation error (status 400)
\* as soon as it is received: no client is acquired for it, its log of
\* orchestrator calls stays empty, and no step taken while it is in its slot
\* changes a store.
C1_RejectedBeforeOrchestrator ==
    /\ [](\A s \in Slots : Rejected(req[s]) =>
             /\ Failed(s)
             /\ result[s].error.variant = "Validation"
             /\ ErrorBody(s).type = "Validation"
             /\ ErrorBody(s).status = 400
             /\ ~client[s]
             /\ calls[s] = <<>>)
    /\ [][\A s \in Slots : (Rejected(req[s]) \/ Rejected(req'[s])) => UNCHANGED Stores]_vars

\* a rejected notebook update has returned while the stores hold resources
C1_Witness ==
    \E s \in Slots :
        /\ Done(s) /\ IsOp(s, "kubeflow", "update") /\ Rejected(req[s])
        /\ result[s].error.variant = "Validation"
        /\ notebooks # <<>> /\ clusters # <<>>

\* C2: for both kinds, a create that succeeds returns an acknowledgement
\* holding the name, the namespace and the resource_type of the resource, and
\* not the object the orchestrator stored (no metadata, no spec).
C2_CreateReturnsAck ==
    \A s \in Slots : Succeeded(s) /\ req[s].op = "create" =>
        /\ {"name", "namespace", "resource_type"} \subseteq DOMAIN result[s].body
        /\ result[s].body.name = Some(TargetName(req[s]))
        /\ result[s].body.namespace = Some(TargetNamespace(req[s]))
        /\ {"metadata", "spec"} \cap DOMAIN result[s].body = {}

\* the value get returns for the resource a request addresses
StoredValue(r) ==
    IF r.kind = "cnpg"
    THEN ToValue("postgresql.cnpg.io/v1", "Cluster", clusters[Key(r)])
    ELSE ToValue("kubeflow.org/v1", "Notebook", notebooks[Key(r)])

\* C3: for both kinds, a get that the orchestrator answers with 404 returns
\* the NotFound kind (status 404) with a message that names the resource and
\* the namespace; a get of a resource in the store returns that resource.
C3_GetNotFoundOrResource ==
    \A s \in Slots : Done(s) /\ req[s].op = "get" /\ Len(calls[s]) = 1 =>
        /\ calls[s][1].code = 404 =>
             /\ ~result[s].ok
             /\ ErrorBody(s).type = "NotFound"
             /\ ErrorBody(s).status = 404
             /\ {req[s].name, req[s].namespace} \subseteq Range(ErrorBody(s).message.args)
        /\ calls[s][1].ok =>
             /\ result[s].ok
             /\ result[s].body = StoredValue(req[s])

\* C4: for both kinds, a delete of a resource that is not in the store (the
\* orchestrator answers 404), a repetition of a delete that succeeded
\* included, returns the NotFound kind and no other, and the step leaves the
\* stores as they were.
C4_DeleteAbsentNotFound ==
    /\ [](\A s \in Slots :
             Done(s) /\ req[s].op = "delete" /\ calls[s] # <<>> /\ calls[s][1].code = 404 =>
                 /\ ~result[s].ok
                 /\ ErrorBody(s).type = "NotFound"
                 /\ ErrorBody(s).status = 404)
    /\ [][\A s \in Slots :
             /\ pc[s] = "delete" /\ pc'[s] # "delete"
             /\ Key(req[s]) \notin DOMAIN StoreOf(req[s].kind)
             => UNCHANGED Stores]_vars

\* what the write-back of an update leaves in the store, given the object read
Written(kind, read, payload, ns) ==
    IF kind = "cnpg"
    THEN Stored(ApplyClusterUpdate(read, payload), ns)
    ELSE [read EXCEPT !.spec =
             MergeNotebookSpec(read.spec, build_update_spec(read.spec, payload))]

\* C5: for both kinds, update reads the target, merges, then writes back once,
\* in that order: its calls are a get, then, only after the get succeeded, one
\* write that stores the merge of the object read; when the target does not
\* exist (the get is answered 404) it returns the NotFound kind without a
\* write-back, and the step leaves the stores as they were.
C5_UpdateReadMergeWrite ==
    /\ [](\A s \in Slots : req[s].op = "update" =>
             /\ Len(calls[s]) <= 2
             /\ calls[s] # <<>> => calls[s][1].verb = "get"
             /\ Len(calls[s]) = 2 =>
                  /\ calls[s][1].ok
                  /\ calls[s][2].verb \in {"replace", "patch"}
             /\ Succeeded(s) =>
                  /\ Len(calls[s]) = 2 /\ calls[s][2].ok
                  /\ StoreOf(req[s].kind)[Key(req[s])] =
                        Written(req[s].kind, Unwrap(local[s]), req[s].payload,
                                req[s].namespace)
             /\ (calls[s] # <<>> /\ calls[s][1].code = 404) =>
                  /\ Failed(s)
                  /\ Len(calls[s]) = 1
                  /\ ErrorBody(s).type = "NotFound"
                  /\ ErrorBody(s).status = 404)
    /\ [][\A s \in Slots :
             /\ pc[s] = "read" /\ pc'[s] # "read"
             /\ Key(req[s]) \notin DOMAIN StoreOf(req[s].kind)
             => UNCHANGED Stores]_vars

\* C6: for both kinds, a list that succeeds returns an envelope whose fields
\* are exactly resources, count and resource_type; count is the number of
\* entries of resources and the number of resources of the kind stored in the
\* namespace listed.
C6_ListEnvelope ==
    \A s \in Slots : Succeeded(s) /\ req[s].op = "list" =>
        /\ DOMAIN result[s].body = {"resources", "count", "resource_type"}
        /\ result[s].body.count = Cardinality(result[s].body.resources)
        /\ result[s].body.count =
              Cardinality({k \in DOMAIN StoreOf(req[s].kind) :
                              k[1] = TargetNamespace(req[s])})

\* two updates of one resource, both returned with success, that read the
\* same stored object
RacingUpdates(s, t) ==
    /\ s # t
    /\ req[s].op = "update" /\ req[t].op = "update"
    /\ req[s].kind = req[t].kind /\ Key(req[s]) = Key(req[t])
    /\ Succeeded(s) /\ Succeeded(t)
    /\ local[s] = local[t]

\* C7: when two concurrent updates of one resource have both read the same
\* stored object and both write-backs have been served, the store holds the
\* write-back one of them derived from that read alone: the change of the
\* other is in it only where its own request makes the same change.
C7_LaterWriteFromStaleRead ==
    \A s, t \in Slots : RacingUpdates(s, t) =>
        /\ Key(req[s]) \in DOMAIN StoreOf(req[s].kind)
        /\ StoreOf(req[s].kind)[Key(req[s])] \in
              { Written(req[u].kind, Unwrap(local[u]), req[u].payload, req[u].namespace) :
                    u \in {s, t} }

\* two notebook updates read the same notebook, both patches are served, and
\* the notebook stored is the one the later derived from its read: the image
\* the earlier set, which its answer shows, is lost
C7_Witness ==
    \E s, t \in Slots :
        /\ RacingUpdates(s, t) /\ req[s].kind = "kubeflow"
        /\ LET read   == Unwrap(local[s])
               stored == notebooks[Key(req[s])]
               first  == Written("kubeflow", read, req[s].payload, req[s].namespace)
           IN  /\ result[s].body = NotebookValue(first)
               /\ first # read
               /\ stored = Written("kubeflow", read, req[t].payload, req[t].namespace)
               /\ stored # Written("kubeflow", first, req[t].payload, req[t].namespace)
               /\ stored.spec.template.spec.containers[1].image =
                     read.spec.template.spec.containers[1].image
               /\ first.spec.template.spec.containers[1].image #
                     read.spec.template.spec.containers[1].image

\* C8: in notebook delete the deletion of the companion storage claim is
\* called only after the deletion of the notebook has succeeded, never when
\* it failed; whatever the orchestrator answers to it, delete returns success
\* and the notebook stays deleted.
C8_CompanionAfterPrimary ==
    \A s \in Slots : IsOp(s, "kubeflow", "delete") =>
        /\ \A i \in DOMAIN calls[s] :
              calls[s][i].api = "PersistentVolumeClaim" =>
                  /\ i = 2
                  /\ calls[s][i].verb = "delete"
                  /\ calls[s][i].name = WorkspacePvcName(req[s].name)
                  /\ calls[s][1].api = "Notebook" /\ calls[s][1].verb = "delete"
                  /\ calls[s][1].ok
        /\ (Done(s) /\ calls[s] # <<>> /\ ~calls[s][1].ok) =>
              /\ Len(calls[s]) = 1
              /\ ~result[s].ok
        /\ (Done(s) /\ calls[s] # <<>> /\ calls[s][1].ok) =>
              /\ Len(calls[s]) = 2
              /\ result[s] = Ok([status |-> "deleted", name |-> req[s].name,
                                 namespace |-> req[s].namespace])
              /\ Key(req[s]) \notin DOMAIN notebooks

\* the notebook is deleted, the deletion of the claim has failed, and delete
\* has returned success
C8_Witness ==
    \E s \in Slots :
        /\ IsOp(s, "kubeflow", "delete") /\ Done(s)
        /\ Len(calls[s]) = 2 /\ calls[s][1].ok /\ ~calls[s][2].ok
        /\ result[s].ok
        /\ Key(req[s]) \notin DOMAIN notebooks

\* C9: in notebook create the creation of the storage claim is called if and
\* only if the request holds workspace_volume_size; whatever the orchestrator
\* answers to it, the creation of the notebook is called next, and create
\* succeeds exactly when that call does, with its error otherwise.
C9_ClaimIsBestEffort ==
    \A s \in Slots : IsOp(s, "kubeflow", "create") /\ client[s] =>
        LET wants == IsSome(req[s].payload.workspace_volume_size)
            n     == Len(calls[s])
        IN  /\ \A i \in DOMAIN calls[s] :
                  calls[s][i].api = "PersistentVolumeClaim" =>
                      /\ wants /\ i = 1
                      /\ calls[s][i].verb = "create"
                      /\ calls[s][i].name = WorkspacePvcName(req[s].payload.name)
            /\ (wants /\ pc[s] \in {"create", "done"}) =>
                  n >= 1 /\ calls[s][1].api = "PersistentVolumeClaim"
            /\ Done(s) =>
                  /\ n = IF wants THEN 2 ELSE 1
                  /\ calls[s][n].api = "Notebook" /\ calls[s][n].verb = "create"
                  /\ result[s].ok = calls[s][n].ok
                  /\ ~result[s].ok =>
                        /\ result[s].error.variant = "Kube"
                        /\ result[s].error.err.code = calls[s][n].code

\* the creation of the claim has failed, the notebook is created and create
\* has returned success
C9_Witness ==
    \E s \in Slots :
        /\ IsOp(s, "kubeflow", "create") /\ Done(s)
        /\ Len(calls[s]) = 2
        /\ calls[s][1].api = "PersistentVolumeClaim" /\ ~calls[s][1].ok
        /\ calls[s][2].ok /\ result[s].ok
        /\ Key(req[s]) \in DOMAIN notebooks

\* the kind and the status a status code of the orchestrator is classified to
KindOfCode(code) ==
    CASE code = 404 -> [type |-> "NotFound", status |-> 404]
      [] code = 400 -> [type |-> "BadRequest", status |-> 400]
      [] code = 401 -> [type |-> "Unauthorized", status |-> 401]
      [] code = 403 -> [type |-> "Forbidden", status |-> 403]
      [] code = 409 -> [type |-> "Conflict", status |-> 409]
      [] OTHER      -> [type |-> "Internal", status |-> 500]

\* C10: a failure the orchestrator's API answers with status code c is
\* classified by c alone: the type of the error body is the name of the kind
\* of c (NotFound, BadRequest, Unauthorized, Forbidden, Conflict, and Internal
\* for every other code) and its status is the status of that kind.
C10_ClassifiedByCode ==
    \A s \in Slots :
        (Failed(s) /\ result[s].error.variant = "Kube" /\ result[s].error.err.type = "Api") =>
            /\ ErrorBody(s).type = KindOfCode(result[s].error.err.code).type
            /\ ErrorBody(s).status = KindOfCode(result[s].error.err.code).status

\* an error raised by the encoding or decoding of a payload: the Serde and
\* Json variants, and the failure to build the payload of the workspace claim
SerializationFailure(e) == e.variant \in {"Serde", "Json"} \/ e = PvcSpecError

\* the message repeats the text of the encoding error
LeaksEncodingText(message) == RawEncodingError.fmt \in {message.fmt, message.detail}

\* C11: every serialization failure (the Serde and Json variants, the failure
\* to build the payload of the companion claim) is surfaced as kind Internal,
\* and the message of the error body does not contain the text of the
\* encoding error.
C11_SerializationIsInternal ==
    (IsOp(1, "builder", "into_response") /\ Done(1) /\ SerializationFailure(req[1].payload)) =>
        /\ ErrorBody(1).type = "Internal"
        /\ ~LeaksEncodingText(ErrorBody(1).message)

\* C12: an operation whose orchestrator call fails with a transport error or a
\* timeout fails after that single attempt (the failed call is the last of the
\* request and the only one of its verb on that API), and the error body has
\* the kind Network or Timeout.
C12_TransientFailureSurfaced ==
    \A s \in Slots :
        (/\ Failed(s) /\ req[s].kind \in Kinds
         /\ result[s].error.variant = "Kube"
         /\ result[s].error.err.type = "Transport") =>
            LET n == Len(calls[s]) IN
            /\ n >= 1 /\ ~calls[s][n].ok
            /\ \A i \in 1..(n - 1) :
                  ~(calls[s][i].api = calls[s][n].api /\ calls[s][i].verb = calls[s][n].verb)
            /\ ErrorBody(s).type \in {"Network", "Timeout"}

\* the entry of `key` in the requests or limits map of a container, if any
ResourceEntry(container, section, key) ==
    IF IsSome(container.resources) /\ IsSome(Unwrap(container.resources)[section])
       /\ key \in DOMAIN Unwrap(Unwrap(container.resources)[section])
    THEN Some(Unwrap(Unwrap(container.resources)[section])[key])
    ELSE None

\* the fields of a cluster spec that the absent fields of `u` stand for, and
\* the ones no field of an update stands for, are the same in `before` and `after`
ClusterFrame(before, after, u) ==
    /\ after.bootstrap = before.bootstrap
    /\ after.storage = before.storage
    /\ ~IsSome(u.instances) => after.instances = before.instances
    /\ ~IsSome(u.postgresql_parameters) => after.postgresql = before.postgresql
    /\ ~IsSome(u.monitoring_enabled) => after.monitoring = before.monitoring

\* the same of the primary container
ContainerFrame(before, after, u) ==
    /\ after.name = before.name
    /\ after.volume_mounts = before.volume_mounts
    /\ after.ports = before.ports
    /\ ~IsSome(u.image) => after.image = before.image
    /\ ~IsSome(u.environment_variables) => after.env = before.env
    /\ (\A f \in {"cpu_request", "cpu_limit", "memory_request", "memory_limit", "gpu_limit"} :
            ~IsSome(u[f])) => after.resources = before.resources
    /\ ~IsSome(u.cpu_request) =>
          ResourceEntry(after, "requests", "cpu") = ResourceEntry(before, "requests", "cpu")
    /\ ~IsSome(u.memory_request) =>
          ResourceEntry(after, "requests", "memory") = ResourceEntry(before, "requests", "memory")
    /\ ~IsSome(u.cpu_limit) =>
          ResourceEntry(after, "limits", "cpu") = ResourceEntry(before, "limits", "cpu")
    /\ ~IsSome(u.memory_limit) =>
          ResourceEntry(after, "limits", "memory") = ResourceEntry(before, "limits", "memory")
    /\ ~IsSome(u.gpu_limit) =>
          ResourceEntry(after, "limits", "nvidia.com/gpu") =
              ResourceEntry(before, "limits", "nvidia.com/gpu")

\* the same of a notebook spec
NotebookFrame(before, after, u) ==
    LET b == before.template.spec
        a == after.template.spec
    IN  /\ a.volumes = b.volumes
        /\ a.service_account_name = b.service_account_name
        /\ Len(a.containers) = Len(b.containers)
        /\ \A i \in 2..Len(b.containers) : a.containers[i] = b.containers[i]
        /\ b.containers # <<>> => ContainerFrame(b.containers[1], a.containers[1], u)

\* C13: for both kinds, after an update that succeeded every field of the
\* stored spec whose update-request field is absent is what the update read:
\* for a cluster storage and bootstrap always, and instances, postgresql
\* parameters and monitoring unless supplied; for a notebook volumes, service
\* account, every non-primary container, and of the primary container name,
\* volume mounts, ports, and image, environment, resources and each resource
\* entry unless supplied.
C13_UpdatePreservesAbsent ==
    \A s \in Slots :
        (Succeeded(s) /\ req[s].kind \in Kinds /\ req[s].op = "update") =>
            LET before == Unwrap(local[s]).spec
                after  == StoreOf(req[s].kind)[Key(req[s])].spec
            IN  /\ Key(req[s]) \in DOMAIN StoreOf(req[s].kind)
                /\ IF req[s].kind = "cnpg"
                   THEN ClusterFrame(before, after, req[s].payload)
                   ELSE NotebookFrame(before, after, req[s].payload)

\* an update of the image alone has succeeded on a notebook that had two
\* containers, volumes, a service account, environment and resources
C13_Witness ==
    \E s \in Slots :
        /\ IsOp(s, "kubeflow", "update") /\ Succeeded(s)
        /\ req[s].payload = [NoNotebookUpdate EXCEPT !.image = Some(Image2)]
        /\ LET before == Unwrap(local[s]).spec.template.spec
               after  == notebooks[Key(req[s])].spec.template.spec
           IN  /\ Len(before.containers) = 2
               /\ IsSome(before.volumes) /\ IsSome(before.service_account_name)
               /\ IsSome(before.containers[1].env) /\ IsSome(before.containers[1].resources)
               /\ before.containers[1].image = Image1
               /\ after.containers[1].image = Image2

\* the requests or limits map of a container, empty when absent
ResourceMap(container, section) ==
    IF IsSome(container.resources)
    THEN UnwrapOr(Unwrap(container.resources)[section], EmptyMap)
    ELSE EmptyMap

\* the entries an update request supplies for the requests or limits map
Supplied(u, section) ==
    IF section = "requests"
    THEN { <<"cpu", u.cpu_request>>, <<"memory", u.memory_request>> }
    ELSE { <<"cpu", u.cpu_limit>>, <<"memory", u.memory_limit>>,
           <<"nvidia.com/gpu", u.gpu_limit>> }

\* an update has been merged into a spec that has a primary container
Merged ==
    /\ IsOp(1, "builder", "build_update_spec") /\ Done(1)
    /\ Unwrap(req[1].existing).template.spec.containers # <<>>

PrimaryBefore == Unwrap(req[1].existing).template.spec.containers[1]

PrimaryAfter == result[1].body.template.spec.containers[1]

\* C14: in the notebook update merge the requests and limits maps are merged
\* key by key: every key of the existing map that the update does not mention
\* keeps its value, every key the update mentions (cpu, memory,
\* nvidia.com/gpu) has the update's value, and the merged map has no other key.
C14_ResourcesMergedByKey ==
    Merged =>
        \A section \in {"requests", "limits"} :
            LET before    == ResourceMap(PrimaryBefore, section)
                after     == ResourceMap(PrimaryAfter, section)
                mentioned == {e \in Supplied(req[1].payload, section) : IsSome(e[2])}
                keys      == {e[1] : e \in mentioned}
            IN  /\ DOMAIN after = DOMAIN before \cup keys
                /\ \A k \in DOMAIN before \ keys : after[k] = before[k]
                /\ \A e \in mentioned : after[e[1]] = Unwrap(e[2])

\* an update of memory_limit alone has been merged into a spec with a cpu
\* request and a cpu limit: both are as they were, the memory limit is the
\* update's
C14_Witness ==
    /\ Merged
    /\ req[1].payload = [NoNotebookUpdate EXCEPT !.memory_limit = Some(Gi4)]
    /\ ResourceEntry(PrimaryBefore, "requests", "cpu") = Some(<<"1">>)
    /\ ResourceEntry(PrimaryBefore, "limits", "cpu") = Some(<<"1">>)
    /\ ResourceEntry(PrimaryBefore, "limits", "memory") = None
    /\ ResourceEntry(PrimaryBefore, "limits", "ephemeral-storage") = Some(Gi1)
    /\ ResourceEntry(PrimaryAfter, "requests", "cpu") = Some(<<"1">>)
    /\ ResourceEntry(PrimaryAfter, "limits", "cpu") = Some(<<"1">>)
    /\ ResourceEntry(PrimaryAfter, "limits", "memory") = Some(Gi4)

\* C15: in the notebook update merge, when environment_variables is present
\* the environment of the primary container is exactly the update's
\* variables, and when it is absent the environment is the existing one; the
\* image, when present, is the update's image.
C15_EnvAndImageReplaced ==
    Merged =>
        LET u == req[1].payload IN
        /\ IsSome(u.environment_variables) =>
              /\ IsSome(PrimaryAfter.env)
              /\ Unwrap(PrimaryAfter.env) =
                    { [name |-> k, value |-> Unwrap(u.environment_variables)[k]] :
                        k \in DOMAIN Unwrap(u.environment_variables) }
        /\ ~IsSome(u.environment_variables) => PrimaryAfter.env = PrimaryBefore.env
        /\ IsSome(u.image) => PrimaryAfter.image = Unwrap(u.image)

\* an update of environment and image has been merged into a spec with the
\* variable A: the environment is the variable B alone, the image is the new one
C15_Witness ==
    /\ Merged
    /\ req[1].payload.environment_variables = Some(Env2)
    /\ req[1].payload.image = Some(Image2)
    /\ PrimaryBefore.env = Some({[name |-> "A", value |-> <<"1">>]})
    /\ PrimaryBefore.image = Image1
    /\ PrimaryAfter.env = Some({[name |-> "B", value |-> <<"2">>]})
    /\ PrimaryAfter.image = Image2

\* the names of the variables of a container's environment
EnvNames(container) == {v.name : v \in UnwrapOr(container.env, {})}

\* every section of `before` is a section of `after`
SectionsKept(kind, before, after) ==
    IF kind = "cnpg"
    THEN /\ IsSome(before.bootstrap) => IsSome(after.bootstrap)
         /\ IsSome(before.storage) => IsSome(after.storage)
         /\ IsSome(before.monitoring) => IsSome(after.monitoring)
    ELSE LET b == before.template.spec
             a == after.template.spec
         IN  /\ IsSome(b.volumes) => IsSome(a.volumes) /\ Unwrap(b.volumes) = Unwrap(a.volumes)
             /\ IsSome(b.service_account_name) => IsSome(a.service_account_name)
             /\ Len(a.containers) >= Len(b.containers)
             /\ \A i \in 1..Len(b.containers) :
                   /\ IsSome(b.containers[i].resources) => IsSome(a.containers[i].resources)
                   /\ IsSome(b.containers[i].env) => IsSome(a.containers[i].env)
                   /\ IsSome(b.containers[i].volume_mounts) => IsSome(a.containers[i].volume_mounts)
                   /\ IsSome(b.containers[i].ports) => IsSome(a.containers[i].ports)

\* every key of the requests and limits maps of `before` is a key of `after`
ResourceKeysKept(kind, before, after) ==
    kind = "kubeflow" =>
        \A i \in 1..Len(before.template.spec.containers), section \in {"requests", "limits"} :
            /\ i <= Len(after.template.spec.containers)
            /\ DOMAIN ResourceMap(before.template.spec.containers[i], section)
                  \subseteq DOMAIN ResourceMap(after.template.spec.containers[i], section)

\* every postgresql parameter of `before` is a parameter of `after`
ParametersKept(kind, before, after) ==
    kind = "cnpg" =>
        DOMAIN before.postgresql.parameters \subseteq DOMAIN after.postgresql.parameters

\* every environment variable of `before` is a variable of `after`
EnvironmentKept(kind, before, after) ==
    kind = "kubeflow" =>
        \A i \in 1..Len(before.template.spec.containers) :
            /\ i <= Len(after.template.spec.containers)
            /\ EnvNames(before.template.spec.containers[i])
                  \subseteq EnvNames(after.template.spec.containers[i])

\* the request of slot s is an update that succeeded
Updated(s) == Succeeded(s) /\ req[s].kind \in Kinds /\ req[s].op = "update"

\* the spec the update of slot s read
SpecRead(s) == Unwrap(local[s]).spec

\* the spec the store holds for the target of the request of slot s
SpecStored(s) == StoreOf(req[s].kind)[Key(req[s])].spec

\* C16 (as claimed): no update removes anything from the stored spec: every
\* section, postgresql parameter, resource request/limit key and environment
\* variable present before the update is present after it.
C16_NothingRemoved ==
    \A s \in Slots : Updated(s) =>
        /\ SectionsKept(req[s].kind, SpecRead(s), SpecStored(s))
        /\ ResourceKeysKept(req[s].kind, SpecRead(s), SpecStored(s))
        /\ ParametersKept(req[s].kind, SpecRead(s), SpecStored(s))
        /\ EnvironmentKept(req[s].kind, SpecRead(s), SpecStored(s))

\* C16 (amended): no update removes a section or a resource request/limit key
\* from the stored spec, and an update that does not supply
\* postgresql_parameters (environment_variables) removes no postgresql
\* parameter (environment variable); a supplied map or list overwrites the
\* stored one.
C16_NothingRemovedUnlessOverwritten ==
    \A s \in Slots : Updated(s) =>
        /\ SectionsKept(req[s].kind, SpecRead(s), SpecStored(s))
        /\ ResourceKeysKept(req[s].kind, SpecRead(s), SpecStored(s))
        /\ (req[s].kind = "cnpg" /\ ~IsSome(req[s].payload.postgresql_parameters)) =>
              ParametersKept(req[s].kind, SpecRead(s), SpecStored(s))
        /\ (req[s].kind = "kubeflow" /\ ~IsSome(req[s].payload.environment_variables)) =>
              EnvironmentKept(req[s].kind, SpecRead(s), SpecStored(s))

\* an update of the postgresql parameters has succeeded on a cluster with the
\* parameter max_connections and a monitoring section: the parameter is gone,
\* the sections are there
C16_Witness ==
    \E s \in Slots :
        /\ Updated(s) /\ req[s].kind = "cnpg"
        /\ req[s].payload.postgresql_parameters = Some(Params2)
        /\ DOMAIN SpecRead(s).postgresql.parameters = {"max_connections"}
        /\ DOMAIN SpecStored(s).postgresql.parameters = {"work_mem"}
        /\ IsSome(SpecRead(s).monitoring) /\ IsSome(SpecStored(s).monitoring)
        /\ IsSome(SpecStored(s).bootstrap) /\ IsSome(SpecStored(s).storage)

\* C17: whatever creates and updates of clusters the handlers have served or
\* rejected, every cluster in the store has an instance count in [1,10].
C17_InstancesInRange ==
    \A k \in DOMAIN clusters :
        clusters[k].spec.instances >= 1 /\ clusters[k].spec.instances <= 10

\* a cluster that a create has stored with 10 instances, and a cluster whose
\* instance count an update has just set to 5
C17_Witness ==
    \E s \in Slots :
        /\ Updated(s) /\ req[s].kind = "cnpg"
        /\ req[s].payload.instances = Some(5)
        /\ SpecRead(s).instances = 3 /\ SpecStored(s).instances = 5
        /\ <<NamespaceN, NameA>> \in DOMAIN clusters
        /\ clusters[<<NamespaceN, NameA>>].spec.instances = 10

\* a cluster spec has been built from a create request
Built == IsOp(1, "builder", "build_cluster_spec") /\ Done(1)

\* C18: in the spec built by cluster create the monitoring section is present
\* if and only if monitoring_enabled is present in the request, and then
\* carries the request's flag; bootstrap and storage are always present.
C18_SectionsFollowRequest ==
    Built =>
        LET spec == result[1].body
            flag == req[1].payload.monitoring_enabled
        IN  /\ IsSome(spec.monitoring) <=> IsSome(flag)
            /\ IsSome(flag) => Unwrap(spec.monitoring).enable_pod_monitor = Unwrap(flag)
            /\ IsSome(spec.bootstrap) /\ IsSome(Unwrap(spec.bootstrap).initdb)
            /\ IsSome(spec.storage)

\* a spec has been built from a request without the monitoring flag:
\* bootstrap and storage are present, monitoring is absent
C18_Witness ==
    /\ Built
    /\ req[1].payload.monitoring_enabled = None
    /\ IsSome(result[1].body.bootstrap) /\ IsSome(result[1].body.storage)
    /\ result[1].body.monitoring = None

\* instance count, database, owner and secret name of a cluster spec
RoundTripFields(spec) ==
    [ instances     |-> spec.instances,
      database_name |-> Unwrap(Unwrap(spec.bootstrap).initdb).database,
      database_owner |-> Unwrap(Unwrap(spec.bootstrap).initdb).owner,
      secret_name   |-> Unwrap(Unwrap(spec.bootstrap).initdb).secret.name ]

\* the same of a create request
RequestFields(p) ==
    [ instances     |-> p.instances,
      database_name |-> p.database_name,
      database_owner |-> p.database_owner,
      secret_name   |-> p.secret_name ]

\* C19: round trip: when a cluster create has succeeded, the spec built from
\* the request and the spec in the store have the request's instances,
\* database_name, database_owner and secret_name; and a get that succeeds
\* returns the spec in the store, so that a get after the create, with no
\* update between, reads these values back.
C19_RoundTrip ==
    \A s \in Slots :
        /\ (IsOp(s, "cnpg", "create") /\ Succeeded(s)) =>
              /\ RoundTripFields(BuildClusterSpec(req[s].payload)) = RequestFields(req[s].payload)
              /\ Key(req[s]) \in DOMAIN clusters
              /\ RoundTripFields(clusters[Key(req[s])].spec) = RequestFields(req[s].payload)
        /\ (IsOp(s, "cnpg", "get") /\ Succeeded(s)) =>
              /\ Key(req[s]) \in DOMAIN clusters
              /\ result[s].body.spec = clusters[Key(req[s])].spec

\* a get has read back a cluster that only a create of this run can have
\* stored (no initial store has a cluster in this namespace): the values are
\* the create request's
C19_Witness ==
    \E s \in Slots :
        /\ IsOp(s, "cnpg", "get") /\ Succeeded(s)
        /\ req[s].namespace = NamespaceN
        /\ RoundTripFields(result[s].body.spec) =
              [ instances |-> 10, database_name |-> <<"a","p","p">>,
                database_owner |-> <<"o","w">>, secret_name |-> <<"s">> ]

\* a notebook spec has been built from a create request
BuiltNotebook == IsOp(1, "builder", "build_notebook_spec") /\ Done(1)

\* C20: in the spec built by notebook create the requests map has the key cpu
\* (memory) exactly when cpu_request (memory_request) is present, the limits
\* map the key cpu (memory, nvidia.com/gpu) exactly when cpu_limit
\* (memory_limit, gpu_limit) is present, each with the request's value; a map
\* without a key is absent and not empty, and the resources section is absent
\* exactly when none of the five fields is present.
C20_ResourcesFollowRequest ==
    BuiltNotebook =>
        LET container == result[1].body.template.spec.containers[1]
            p         == req[1].payload
            present(section) == {e \in Supplied(p, section) : IsSome(e[2])}
        IN  /\ \A section \in {"requests", "limits"} :
                  /\ DOMAIN ResourceMap(container, section) = {e[1] : e \in present(section)}
                  /\ \A e \in present(section) :
                        ResourceMap(container, section)[e[1]] = Unwrap(e[2])
                  /\ IsSome(container.resources) =>
                        (IsSome(Unwrap(container.resources)[section]) <=> present(section) # {})
            /\ IsSome(container.resources) <=>
                  (present("requests") # {} \/ present("limits") # {})

\* a spec has been built from a request with gpu_limit alone: the limits map
\* is the accelerator key, the requests map is absent
C20_Witness ==
    /\ BuiltNotebook
    /\ req[1].payload = [BaseNotebook EXCEPT !.gpu_limit = Some(<<"1">>)]
    /\ LET container == result[1].body.template.spec.containers[1]
       IN  /\ IsSome(container.resources)
           /\ Unwrap(container.resources).requests = None
           /\ Unwrap(container.resources).limits = Some([k \in {"nvidia.com/gpu"} |-> <<"1">>])

\* C21: in the spec built by notebook create with workspace_volume_size
\* present there is exactly one volume, named "{name}-workspace" and backed by
\* the claim "{name}-workspace-pvc", and exactly one volume mount, of that
\* volume, at workspace_volume_mount when supplied and at /home/jovyan/work
\* otherwise; with workspace_volume_size absent volumes and volume mounts are
\* both absent, a mount path supplied or not.
C21_WorkspaceVolume ==
    BuiltNotebook =>
        LET p         == req[1].payload
            pod       == result[1].body.template.spec
            container == pod.containers[1]
            volume    == p.name \o <<"-","w","o","r","k","s","p","a","c","e">>
            path      == IF IsSome(p.workspace_volume_mount)
                         THEN Unwrap(p.workspace_volume_mount)
                         ELSE <<"/","h","o","m","e","/","j","o","v","y","a","n","/","w","o","r","k">>
        IN  IF IsSome(p.workspace_volume_size)
            THEN /\ IsSome(pod.volumes) /\ Len(Unwrap(pod.volumes)) = 1
                 /\ Unwrap(pod.volumes)[1].name = volume
                 /\ Unwrap(pod.volumes)[1].persistent_volume_claim =
                       Some([claim_name |-> volume \o <<"-","p","v","c">>])
                 /\ Unwrap(pod.volumes)[1].empty_dir = None
                 /\ IsSome(container.volume_mounts) /\ Len(Unwrap(container.volume_mounts)) = 1
                 /\ Unwrap(container.volume_mounts)[1] = [name |-> volume, mount_path |-> path]
            ELSE pod.volumes = None /\ container.volume_mounts = None

\* a spec has been built from a request with a workspace and no mount path:
\* the one mount is at the default path
C21_Witness ==
    /\ BuiltNotebook
    /\ IsSome(req[1].payload.workspace_volume_size)
    /\ req[1].payload.workspace_volume_mount = None
    /\ req[1].payload.name = <<"n","b">>
    /\ Unwrap(result[1].body.template.spec.containers[1].volume_mounts) =
          << [ name       |-> <<"n","b","-","w","o","r","k","s","p","a","c","e">>,
               mount_path |-> <<"/","h","o","m","e","/","j","o","v","y","a","n","/","w","o","r","k">> ] >>

\* the rule `rule` has been applied
Applied(rule) == IsOp(1, "builder", rule) /\ Done(1)

\* the rule applied has returned Ok(())
Accepted == result[1].ok

\* the rule applied has returned a Validation error
RejectedAsValidation ==
    ~result[1].ok /\ result[1].error.variant = "Validation" /\ ErrorBody(1).type = "Validation"

\* C22: validate_instance_count(n) succeeds for every n with 1 <= n <= 10 and
\* fails with a Validation error for every n < 1 and every n > 10.
C22_InstanceCountRule ==
    Applied("validate_instance_count") =>
        IF req[1].payload >= 1 /\ req[1].payload <= 10
        THEN Accepted
        ELSE RejectedAsValidation

\* the rule has accepted 10 instances
C22_Witness ==
    Applied("validate_instance_count") /\ req[1].payload = 10 /\ Accepted

\* the suffixes of a memory or storage quantity
RecognizedSuffixes ==
    { <<"K","i">>, <<"M","i">>, <<"G","i">>, <<"T","i">>, <<"P","i">>, <<"E","i">>,
      <<"K">>, <<"M">>, <<"G">>, <<"T">>, <<"P">>, <<"E">> }

\* digits with at most one decimal point
PlainDecimal(x) ==
    /\ \A i \in 1..Len(x) : x[i] \in Digit \cup {"."}
    /\ \E i \in 1..Len(x) : x[i] \in Digit
    /\ Cardinality({i \in 1..Len(x) : x[i] = "."}) <= 1

\* a number in decimal notation: an optional sign, digits with at most one
\* decimal point, and an optional exponent
Numeric(x) ==
    LET unsigned == IF x # <<>> /\ Head(x) \in {"+", "-"} THEN Tail(x) ELSE x
        marks    == {i \in 1..Len(unsigned) : unsigned[i] \in {"e", "E"}}
    IN  \/ PlainDecimal(unsigned)
        \/ \E i \in marks :
             LET exponent == SubSeq(unsigned, i + 1, Len(unsigned))
                 digits   == IF exponent # <<>> /\ Head(exponent) \in {"+", "-"}
                             THEN Tail(exponent) ELSE exponent
             IN  /\ PlainDecimal(SubSeq(unsigned, 1, i - 1))
                 /\ digits # <<>> /\ AllDigits(digits)

\* a numeric prefix followed by a recognized suffix
NumericWithSuffix(x) ==
    \E suffix \in RecognizedSuffixes :
        EndsWith(x, suffix) /\ Numeric(StripSuffix(x, suffix))

\* C23: validate_memory_resource and validate_storage_size accept a string
\* exactly when it is a numeric prefix followed by one of the suffixes Ki, Mi,
\* Gi, Ti, Pi, Ei, K, M, G, T, P, E, and fail with a Validation error on every
\* other string (the empty string, a missing or non-numeric prefix, another
\* suffix).
C23_MemoryRule ==
    (Applied("validate_memory_resource") \/ Applied("validate_storage_size")) =>
        IF NumericWithSuffix(req[1].payload) THEN Accepted ELSE RejectedAsValidation

\* an integer millicore value followed by m: an integer that fits 32 bits
Millicores(x) ==
    /\ EndsWith(x, <<"m">>)
    /\ ParseU32Ok(StripSuffix(x, <<"m">>))

\* C24: validate_cpu_resource accepts a string exactly when it is an integer
\* millicore value followed by m or a decimal core count, and fails with a
\* Validation error on every other string.
C24_CpuRule ==
    Applied("validate_cpu_resource") =>
        IF Millicores(req[1].payload) \/ Numeric(req[1].payload)
        THEN Accepted
        ELSE RejectedAsValidation

\* 1 to 253 lowercase letters, digits and '-', the first and the last no '-'
KubernetesName(x) ==
    /\ Len(x) >= 1 /\ Len(x) <= 253
    /\ \A i \in 1..Len(x) : x[i] \in Lower \cup Digit \cup {"-"}
    /\ x[1] # "-" /\ x[Len(x)] # "-"

\* C25: validate_resource_name accepts a string exactly when it has 1 to 253
\* characters, all lowercase letters, digits or '-', and neither starts nor
\* ends with '-'; validate_namespace accepts the same strings, so never '.'
\* or '..'; both fail with a Validation error otherwise.
C25_NameRule ==
    (Applied("validate_resource_name") \/ Applied("validate_namespace")) =>
        /\ IF KubernetesName(req[1].payload) THEN Accepted ELSE RejectedAsValidation
        /\ req[1].payload \in {<<".">>, <<".", ".">>} => ~Accepted

\* the rule of namespaces has accepted a name of 253 characters
C25_Witness ==
    /\ Applied("validate_namespace")
    /\ Len(req[1].payload) = 253
    /\ Accepted

\* the key of the companion claim of the notebook a request addresses
ClaimKey(r) == <<TargetNamespace(r), WorkspacePvcName(TargetName(r))>>

\* C26: in a notebook create that holds workspace_volume_size the creation of
\* the claim is called before the creation of the notebook; when the creation
\* of the notebook fails, create returns that error and the claim this create
\* has provisioned is still in the store: nothing is rolled back.
C26_NoRollback ==
    \A s \in Slots :
        (IsOp(s, "kubeflow", "create") /\ IsSome(req[s].payload.workspace_volume_size)) =>
            /\ \A i \in DOMAIN calls[s] :
                  (calls[s][i].api = "Notebook" /\ calls[s][i].verb = "create") =>
                      /\ i = 2
                      /\ calls[s][1].api = "PersistentVolumeClaim"
                      /\ calls[s][1].verb = "create"
                      /\ <<calls[s][1].ns, calls[s][1].name>> = ClaimKey(req[s])
            /\ (Done(s) /\ Len(calls[s]) = 2 /\ ~calls[s][2].ok) =>
                  /\ ~result[s].ok
                  /\ result[s].error.variant = "Kube"
                  /\ result[s].error.err.code = calls[s][2].code
                  /\ calls[s][1].ok => ClaimKey(req[s]) \in DOMAIN pvcs

\* the claim is provisioned, the notebook exists already, create has returned
\* the conflict and the claim is in the store
C26_Witness ==
    \E s \in Slots :
        /\ IsOp(s, "kubeflow", "create") /\ Done(s)
        /\ Len(calls[s]) = 2
        /\ calls[s][1].api = "PersistentVolumeClaim" /\ calls[s][1].ok
        /\ calls[s][2].api = "Notebook" /\ ~calls[s][2].ok /\ calls[s][2].code = 409
        /\ result[s].error = AppKube(KubeApi(409, Msg("{} already exists", <<req[s].payload.name>>)))
        /\ ClaimKey(req[s]) \in DOMAIN pvcs

\* "{name}-workspace-pvc"
CompanionName(name) == name \o <<"-","w","o","r","k","s","p","a","c","e","-","p","v","c">>

\* the claims the volumes of a stored notebook name
ClaimsNamed(notebook) ==
    LET volumes == UnwrapOr(notebook.spec.template.spec.volumes, <<>>)
    IN  { Unwrap(volumes[i].persistent_volume_claim).claim_name :
            i \in {j \in DOMAIN volumes : IsSome(volumes[j].persistent_volume_claim)} }

\* C27: a notebook delete that succeeds has called the deletion of the claim
\* "{name}-workspace-pvc" in the namespace of the notebook, whether or not the
\* notebook had a workspace volume; when that call has succeeded no claim of
\* that name is in the namespace.  Create provisions the claim under the same
\* name, and the volume of every notebook built names it.
C27_CleanupByName ==
    /\ \A s \in Slots : (IsOp(s, "kubeflow", "delete") /\ Succeeded(s)) =>
          /\ Len(calls[s]) = 2
          /\ calls[s][2].api = "PersistentVolumeClaim" /\ calls[s][2].verb = "delete"
          /\ calls[s][2].ns = req[s].namespace
          /\ calls[s][2].name = CompanionName(req[s].name)
          /\ calls[s][2].ok =>
                <<req[s].namespace, CompanionName(req[s].name)>> \notin DOMAIN pvcs
    /\ \A s \in Slots : IsOp(s, "kubeflow", "create") =>
          \A i \in DOMAIN calls[s] : calls[s][i].api = "PersistentVolumeClaim" =>
              /\ calls[s][i].ns = UnwrapOr(req[s].payload.namespace, DefaultNamespace)
              /\ calls[s][i].name = CompanionName(req[s].payload.name)
              /\ calls[s][i].ok => pvcs[<<calls[s][i].ns, calls[s][i].name>>].metadata.name =
                                      Some(CompanionName(req[s].payload.name))
    /\ \A k \in DOMAIN notebooks : ClaimsNamed(notebooks[k]) \subseteq {CompanionName(k[2])}

\* a delete has succeeded whose call has removed the claim of the notebook;
\* no notebook of that name and no claim of it is left
C27_Witness ==
    \E s \in Slots :
        /\ IsOp(s, "kubeflow", "delete") /\ Succeeded(s)
        /\ Len(calls[s]) = 2 /\ calls[s][2].ok
        /\ Key(req[s]) \notin DOMAIN notebooks
        /\ ClaimKey(req[s]) \notin DOMAIN pvcs

\* the overlays of update have been applied to a cluster
Overlaid == IsOp(1, "builder", "cluster_update") /\ Done(1)

\* C28: a cluster update that holds monitoring_enabled replaces the whole
\* monitoring section: enablePodMonitor is the value supplied and
\* disableDefaultQueries is false, whatever the section was; without
\* monitoring_enabled the section, present or absent, is as it was.
C28_MonitoringReplaced ==
    Overlaid =>
        LET flag   == req[1].payload.monitoring_enabled
            before == Unwrap(req[1].existing).spec.monitoring
            after  == result[1].body.spec.monitoring
        IN  IF IsSome(flag)
            THEN after = Some([enable_pod_monitor      |-> Unwrap(flag),
                               disable_default_queries |-> FALSE])
            ELSE after = before

\* an update with monitoring_enabled false has been applied to a cluster whose
\* section had disableDefaultQueries set: both fields are false now
C28_Witness ==
    /\ Overlaid
    /\ req[1].payload.monitoring_enabled = Some(FALSE)
    /\ Unwrap(req[1].existing).spec.monitoring =
          Some([enable_pod_monitor |-> TRUE, disable_default_queries |-> TRUE])
    /\ result[1].body.spec.monitoring =
          Some([enable_pod_monitor |-> FALSE, disable_default_queries |-> FALSE])

=============================================================================
